---- MODULE Spec2Model ----
(***************************************************************************)
(* A model of caprover_api/caprover_api.py:                                *)
(*   - CaproverAPI.deploy_one_click_app, the dependency-ordered rollout of *)
(*     the services of a one-click bundle (specification Spec, and         *)
(*     SatisfiableFairSpec for the claim about termination);               *)
(*   - the retry decorator and its settings table TRANSIENT_ERRORS         *)
(*     (specification RetrySpec).                                          *)
(***************************************************************************)
EXTENDS Integers, Sequences, FiniteSets, TLC

VARIABLES
    \* ---- deploy_one_click_app ----
    services,       \* services.keys() in insertion order: a sequence of names
    depends_on,     \* service name -> set(service_data.get('depends_on', []))
    apps_deployed,  \* the list apps_deployed
    pc,             \* position in deploy_one_click_app
    idx,            \* position of the for loop in services.items()
    log,            \* the calls issued so far: [op, app, ok]
    status,         \* "running", "returned" or "raised"
    error,          \* the exception deploy_one_click_app propagated, or "none"
    result,         \* the status field of the returned summary, or 0
    passes,         \* completed passes of the for loop (history, saturating)
    \* ---- retry ----
    exception_settings, \* the decorator's table, in dict order
    calls,              \* call id -> the frame of one wrapper invocation
    \* ---- _wait_until_app_ready, deploy_app, _check_errors,
    \*      _resolve_app_variables, update_app, a call of create_app or
    \*      deploy_app with its wait in detail, delete_app_matching_pattern
    \*      and create_and_update_app: one record of locals each ----
    waiter,
    deploy,
    checked,
    resolver,
    updater,
    request,
    deleter,
    combined

dvars == <<services, depends_on, apps_deployed, pc, idx, log, status, error,
           result, passes>>
rvars == <<exception_settings, calls>>
xvars == <<waiter, deploy, checked, resolver, updater, request, deleter,
          combined>>
vars == <<dvars, rvars, xvars>>

(***************************************************************************)
(* Bounds of the model.                                                    *)
(***************************************************************************)
MaxServices == 3    \* services of a bundle
MaxDeps == 1        \* entries of one depends_on list
MaxCalls == 2       \* invocations of a retry-wrapped operation
MaxLen == 1         \* symbols of the services text of a bundle
MaxApps == 2        \* apps that list_apps reports
MaxAsks == 1        \* answers other than y, n, Y, N to one confirmation

(***************************************************************************)
(* Program constants.                                                      *)
(***************************************************************************)
STATUS_OK == 100
STATUS_OK_DEPLOY_STARTED == 101
STATUS_OK_PARTIALLY == 102
STATUS_ERROR_GENERIC == 1000
STATUS_ERROR_ALREADY_EXIST == 1103
HTTP_TOO_MANY_REQUESTS == 429
TooManyTimes == 6
TooManyDelay == 15
ConnectionTimes == 3
ConnectionDelay == 1

Range(s) == {s[i] : i \in 1..Len(s)}

(***************************************************************************)
(* deploy_one_click_app                                                    *)
(*                                                                         *)
(* A service is named by its position in the bundle's declaration order    *)
(* (the insertion order of the services dict); 0 is a name that is not a   *)
(* key of the bundle.                                                      *)
(***************************************************************************)
Absent == 0

\* what create_app, update_app and deploy_app can raise to their caller: a
\* transient error whose retries are exhausted, or any other exception
RolloutErrors == {"TooManyRequestsError", "ConnectionError", "Exception"}

Bundles(n) ==
    [1..n -> {d \in SUBSET ({Absent} \cup (1..n)) : Cardinality(d) <= MaxDeps}]

\* apps_to_deploy = list(services.keys())
apps_to_deploy == services

\* service_name in apps_deployed
\* (variant: the test for an already deployed service is missing)
AlreadyDeployedNever(s) == FALSE
AlreadyDeployed(s) == s \in Range(apps_deployed)

\* set(depends_on).issubset(set(apps_deployed))
\* (variants: the test is made against apps_to_deploy; the test is missing)
DepsSatisfiedAmongListed(s) == depends_on[s] \subseteq Range(apps_to_deploy)
DepsSatisfiedAlways(s) == TRUE
DepsSatisfied(s) == depends_on[s] \subseteq Range(apps_deployed)

\* while set(apps_to_deploy) != set(apps_deployed)
\* (variant: the lists are compared, not their sets)
LoopConditionOnLists == apps_to_deploy # apps_deployed
LoopCondition == Range(apps_to_deploy) # Range(apps_deployed)

Entry(op, s, ok) == [op |-> op, app |-> s, ok |-> ok]

\* an exception raised by a rollout step is not caught: it leaves the for
\* loop, the while loop and the method
\* (variant: the exception is caught and the for loop goes on)
PropagateSwallowed(e) ==
    /\ status' = "running"
    /\ error' = "none"
    /\ pc' = "for"
    /\ idx' = idx + 1
Propagate(e) ==
    /\ status' = "raised"
    /\ error' = e
    /\ pc' = "raised"
    /\ idx' = idx

\* the services a rollout without failures can deploy: the least set closed
\* under "all of its depends_on are in the set"; the others are blocked by a
\* cycle or by a name that is not in the bundle
RECURSIVE Deployable(_)
Deployable(k) ==
    IF k = 0 THEN {}
    ELSE LET D == Deployable(k - 1)
         IN  {s \in Range(services) : depends_on[s] \subseteq D}
Blocked == Range(services) \ Deployable(Len(services))

DInit ==
    /\ \E n \in 0..MaxServices :
          /\ services = [i \in 1..n |-> i]
          /\ depends_on \in Bundles(n)
    /\ apps_deployed = <<>>
    /\ pc = "while"
    /\ idx = 0
    /\ log = <<>>
    /\ status = "running"
    /\ error = "none"
    /\ result = 0
    /\ passes = 0

\* the while test; when it fails the method returns the summary
WhileEnter ==
    /\ pc = "while"
    /\ LoopCondition
    /\ pc' = "for"
    /\ idx' = 1
    /\ UNCHANGED <<rvars, xvars, services, depends_on, apps_deployed, log, status, error,
                   result, passes>>

Return ==
    /\ pc = "while"
    /\ ~LoopCondition
    /\ pc' = "done"
    /\ status' = "returned"
    /\ result' = STATUS_OK
    /\ UNCHANGED <<rvars, xvars, services, depends_on, apps_deployed, idx, log, error,
                   passes>>

\* the for loop has run through services.items(): back to the while test
\* (passes stops counting above len(services): a rollout that stalls keeps
\* looping through the same states)
ForExhausted ==
    /\ pc = "for"
    /\ idx > Len(services)
    /\ pc' = "while"
    /\ passes' = IF passes <= Len(services) THEN passes + 1 ELSE passes
    /\ UNCHANGED <<rvars, xvars, services, depends_on, apps_deployed, idx, log, status,
                   error, result>>

\* the two `continue` branches
SkipDeployed ==
    /\ pc = "for"
    /\ idx <= Len(services)
    /\ AlreadyDeployed(services[idx])
    /\ idx' = idx + 1
    /\ UNCHANGED <<rvars, xvars, services, depends_on, apps_deployed, pc, log, status,
                   error, result, passes>>

SkipBlocked ==
    /\ pc = "for"
    /\ idx <= Len(services)
    /\ ~AlreadyDeployed(services[idx])
    /\ ~DepsSatisfied(services[idx])
    /\ idx' = idx + 1
    /\ UNCHANGED <<rvars, xvars, services, depends_on, apps_deployed, pc, log, status,
                   error, result, passes>>

\* the service is neither deployed nor blocked: it is rolled out, starting
\* with self.create_app(...)
Ready ==
    /\ pc = "for"
    /\ idx <= Len(services)
    /\ ~AlreadyDeployed(services[idx])
    /\ DepsSatisfied(services[idx])

CreateAppOk ==
    /\ Ready
    /\ log' = Append(log, Entry("create_app", services[idx], TRUE))
    /\ pc' = "update_app"
    /\ UNCHANGED <<rvars, xvars, services, depends_on, apps_deployed, idx, status, error,
                   result, passes>>

CreateAppRaises ==
    /\ Ready
    /\ \E e \in RolloutErrors :
          /\ log' = Append(log, Entry("create_app", services[idx], FALSE))
          /\ Propagate(e)
    /\ UNCHANGED <<rvars, xvars, services, depends_on, apps_deployed, result, passes>>

UpdateAppOk ==
    /\ pc = "update_app"
    /\ log' = Append(log, Entry("update_app", services[idx], TRUE))
    /\ pc' = "deploy_app"
    /\ UNCHANGED <<rvars, xvars, services, depends_on, apps_deployed, idx, status, error,
                   result, passes>>

UpdateAppRaises ==
    /\ pc = "update_app"
    /\ \E e \in RolloutErrors :
          /\ log' = Append(log, Entry("update_app", services[idx], FALSE))
          /\ Propagate(e)
    /\ UNCHANGED <<rvars, xvars, services, depends_on, apps_deployed, result, passes>>

\* deploy_app returned: apps_deployed.append(service_name), next item
DeployAppOk ==
    /\ pc = "deploy_app"
    /\ log' = Append(log, Entry("deploy_app", services[idx], TRUE))
    /\ apps_deployed' = Append(apps_deployed, services[idx])
    /\ pc' = "for"
    /\ idx' = idx + 1
    /\ UNCHANGED <<rvars, xvars, services, depends_on, status, error, result, passes>>

DeployAppRaises ==
    /\ pc = "deploy_app"
    /\ \E e \in RolloutErrors :
          /\ log' = Append(log, Entry("deploy_app", services[idx], FALSE))
          /\ Propagate(e)
    /\ UNCHANGED <<rvars, xvars, services, depends_on, apps_deployed, result, passes>>

RIdle ==
    /\ exception_settings = <<>>
    /\ calls = <<>>

\* the other components while they are not looked at
XIdle ==
    /\ waiter = <<>>
    /\ deploy = <<>>
    /\ checked = <<>>
    /\ resolver = <<>>
    /\ updater = <<>>
    /\ request = <<>>
    /\ deleter = <<>>
    /\ combined = <<>>

Init == DInit /\ RIdle /\ XIdle

DNext ==
    \/ WhileEnter
    \/ Return
    \/ ForExhausted
    \/ SkipDeployed
    \/ SkipBlocked
    \/ CreateAppOk
    \/ CreateAppRaises
    \/ UpdateAppOk
    \/ UpdateAppRaises
    \/ DeployAppOk
    \/ DeployAppRaises

Next == DNext

Spec == Init /\ [][Next]_vars

\* the bundles whose depends_on graph is acyclic and names only services of
\* the bundle; the method runs in one thread that always takes its next step
SatisfiableInit == Init /\ Blocked = {}
SatisfiableFairSpec == SatisfiableInit /\ [][Next]_vars /\ WF_vars(Next)

(***************************************************************************)
(* The retry decorator                                                     *)
(*                                                                         *)
(* exception_settings is the decorator's table as a sequence of entries    *)
(* [exc, times, delay] in dict order.  Each invocation of the wrapper has  *)
(* a frame in calls: the frames of different call ids belong to calls that *)
(* follow one another or overlap.                                          *)
(***************************************************************************)
\* the exception classes the wrapped operation raises, and their ancestors
ExcClasses == {"Exception", "TooManyRequestsError", "ConnectionError"}
Ancestors(e) == {e, "Exception"}

\* isinstance(e, key)
\* (variant: every exception counts as an instance of every key)
IsInstanceOfAnything(e, key) == TRUE
IsInstance(e, key) == key \in Ancestors(e)

RetrySettings(times, delay) == [times |-> times, delay |-> delay]
Setting(exc, st) == [exc |-> exc, times |-> st.times, delay |-> st.delay]

TRANSIENT_ERRORS ==
    << Setting("TooManyRequestsError",
               RetrySettings(TooManyTimes, TooManyDelay)),
       Setting("ConnectionError",
               RetrySettings(ConnectionTimes, ConnectionDelay)) >>

\* the tables the decorator is applied to: TRANSIENT_ERRORS, and every table
\* of two classes, in either dict order, with small settings
Tables ==
    {TRANSIENT_ERRORS}
    \cup {<<Setting(p[1], RetrySettings(1, 2)),
            Setting(p[2], RetrySettings(2, 3))>> :
            p \in {q \in ExcClasses \X ExcClasses : q[1] # q[2]}}

Delays(T) == {T[i].delay : i \in 1..Len(T)}

\* except tuple(exception_settings.keys()) as e
Caught(T, e) == \E i \in 1..Len(T) : IsInstance(e, T[i].exc)

\* for key, settings in exception_settings.items():
\*     if isinstance(e, key): exc_type = key; break
MatchIndex(T, e) ==
    CHOOSE i \in 1..Len(T) :
        /\ IsInstance(e, T[i].exc)
        /\ \A j \in 1..(i - 1) : ~IsInstance(e, T[j].exc)

\* retries_by_exc[exc_type] < settings.times
\* (variant: one retry less)
MayRetryOneLess(retries, settings) == retries < settings.times - 1
MayRetry(retries, settings) == retries < settings.times

IdleFrame ==
    [st |-> "idle",
     retries_by_exc |-> [k \in ExcClasses |-> 0],
     raised |-> [e \in ExcClasses |-> 0],
     slept |-> [d \in Delays(exception_settings) |-> 0],
     exc |-> "none"]

\* retries_by_exc = Counter()
\* (variant: the counter is shared with the call before)
CounterOfEarlierCall(c) ==
    IF c > 1 THEN calls[c - 1].retries_by_exc ELSE [k \in ExcClasses |-> 0]
NewCounter(c) == [k \in ExcClasses |-> 0]

\* retries_by_exc[exc_type] += 1
Count(counter, exc_type) ==
    [counter EXCEPT ![exc_type] = counter[exc_type] + 1]

RInit ==
    /\ exception_settings \in Tables
    /\ calls = [c \in 1..MaxCalls |-> IdleFrame]

\* the wrapper is called
Start(c) ==
    /\ calls[c].st = "idle"
    /\ calls' = [calls EXCEPT ![c].st = "running",
                              ![c].retries_by_exc = NewCounter(c)]
    /\ UNCHANGED <<exception_settings, dvars, xvars>>

\* return func(*args, **kwargs)
FuncReturns(c) ==
    /\ calls[c].st = "running"
    /\ calls' = [calls EXCEPT ![c].st = "returned"]
    /\ UNCHANGED <<exception_settings, dvars, xvars>>

\* func raises e, an instance of a key: retries are left, the wrapper counts
\* one, sleeps settings.delay and runs the loop again
FuncRaisesRetried(c, e) ==
    /\ calls[c].st = "running"
    /\ Caught(exception_settings, e)
    /\ LET settings == exception_settings[MatchIndex(exception_settings, e)]
           exc_type == settings.exc
       IN  /\ MayRetry(calls[c].retries_by_exc[exc_type], settings)
           /\ calls' = [calls EXCEPT
                  ![c].raised[e] = @ + 1,
                  ![c].retries_by_exc = Count(@, exc_type),
                  ![c].slept[settings.delay] = @ + 1]
    /\ UNCHANGED <<exception_settings, dvars, xvars>>

\* func raises e, an instance of a key, and the retries of the key are
\* exhausted: raise
FuncRaisesExhausted(c, e) ==
    /\ calls[c].st = "running"
    /\ Caught(exception_settings, e)
    /\ LET settings == exception_settings[MatchIndex(exception_settings, e)]
           exc_type == settings.exc
       IN  /\ ~MayRetry(calls[c].retries_by_exc[exc_type], settings)
           /\ calls' = [calls EXCEPT ![c].raised[e] = @ + 1,
                                     ![c].st = "raised",
                                     ![c].exc = e]
    /\ UNCHANGED <<exception_settings, dvars, xvars>>

\* func raises an exception the except clause does not name
FuncRaisesOther(c, e) ==
    /\ calls[c].st = "running"
    /\ ~Caught(exception_settings, e)
    /\ calls' = [calls EXCEPT ![c].raised[e] = @ + 1,
                              ![c].st = "raised",
                              ![c].exc = e]
    /\ UNCHANGED <<exception_settings, dvars, xvars>>

\* the deployer's variables while the decorator is looked at alone
DIdle ==
    /\ services = <<>>
    /\ depends_on = <<>>
    /\ apps_deployed = <<>>
    /\ pc = "idle"
    /\ idx = 0
    /\ log = <<>>
    /\ status = "idle"
    /\ error = "none"
    /\ result = 0
    /\ passes = 0

RetryInit == RInit /\ DIdle /\ XIdle

RNext ==
    \E c \in 1..MaxCalls :
        \/ Start(c)
        \/ FuncReturns(c)
        \/ \E e \in ExcClasses : FuncRaisesRetried(c, e)
        \/ \E e \in ExcClasses : FuncRaisesExhausted(c, e)
        \/ \E e \in ExcClasses : FuncRaisesOther(c, e)

RetryNext == RNext

RetrySpec == RetryInit /\ [][RetryNext]_vars

(***************************************************************************)
(* Claims about deploy_one_click_app                                       *)
(***************************************************************************)
RolloutOps == {"create_app", "update_app", "deploy_app"}

NoStepRaised == \A i \in 1..Len(log) : log[i].ok
CalledOnce ==
    \A i, j \in 1..Len(log) :
        (log[i].app = log[j].app /\ log[i].op = log[j].op) => i = j

\* C1: every call of a service's rollout (create_app, update_app,
\* deploy_app) is issued after deploy_app has returned successfully for each
\* service of its depends_on, whatever the declaration order.
C1_DependenciesFirst ==
    \A i \in 1..Len(log) :
        \A d \in depends_on[log[i].app] :
            \E j \in 1..(i - 1) : log[j] = Entry("deploy_app", d, TRUE)

\* service 1 is declared first and depends on service 2: the whole rollout of
\* 2 came before the first call for 1
C1_Witness ==
    /\ Len(services) = 2
    /\ depends_on[1] = {2}
    /\ depends_on[2] = {}
    /\ status = "returned"
    /\ log = << Entry("create_app", 2, TRUE), Entry("update_app", 2, TRUE),
                Entry("deploy_app", 2, TRUE), Entry("create_app", 1, TRUE),
                Entry("update_app", 1, TRUE), Entry("deploy_app", 1, TRUE) >>

\* C2: every service is deployed exactly once: no call of a rollout is
\* issued twice for a service over the passes of the loop, the deployed list
\* holds no service twice, and at return every service of the bundle has had
\* each call of its rollout.
C2_ExactlyOnce ==
    /\ CalledOnce
    /\ \A i, j \in 1..Len(apps_deployed) :
          apps_deployed[i] = apps_deployed[j] => i = j
    /\ status = "returned" =>
          \A s \in Range(services) : \A op \in RolloutOps :
              \E i \in 1..Len(log) : log[i] = Entry(op, s, TRUE)

\* three services returned after more than one pass of the loop
C2_Witness ==
    /\ Len(services) = 3
    /\ status = "returned"
    /\ passes >= 2
    /\ Len(log) = 9

\* C3: when every depends_on can be satisfied (no cycle, no name absent from
\* the bundle) and no rollout step raises, the call terminates: it returns,
\* with every service deployed, after at most as many passes as there are
\* services, and the summary's status is STATUS_OK.
C3_Terminates ==
    /\ <>(status = "returned" \/ ~NoStepRaised)
    /\ [](status = "returned" =>
            /\ Range(apps_deployed) = Range(services)
            /\ passes <= Len(services)
            /\ result = STATUS_OK)

\* a chain declared in reverse order returns after exactly three passes
C3_Witness ==
    /\ Len(services) = 3
    /\ depends_on[1] = {2}
    /\ depends_on[2] = {3}
    /\ status = "returned"
    /\ passes = 3
    /\ result = STATUS_OK

\* C4: with a dependency cycle or a depends_on naming a service absent from
\* the bundle the call never returns and never raises of its own, it keeps
\* running: no call is ever issued for a blocked service, no call is issued
\* twice, and once as many passes as there are services are completed the
\* deployed services are exactly those that are not blocked.
C4_StallsForever ==
    LET B == Blocked
    IN  B # {} =>
            /\ status # "returned"
            /\ \A i \in 1..Len(log) : log[i].app \notin B
            /\ status = "raised" => ~NoStepRaised
            /\ status = "running" => ENABLED Next
            /\ CalledOnce
            /\ (status = "running" /\ passes >= Len(services)) =>
                  Range(apps_deployed) = Range(services) \ B

\* service 1 is deployed, 2 and 3 block each other and the loop keeps running
C4_Witness ==
    /\ Len(services) = 3
    /\ depends_on[1] = {}
    /\ depends_on[2] = {3}
    /\ depends_on[3] = {2}
    /\ apps_deployed = <<1>>
    /\ passes > Len(services)
    /\ status = "running"

\* C5: a rollout step that raises ends the call at once with that error: the
\* failed call is the last call issued, the failing service is not in the
\* deployed list, nothing but rollout calls was issued (no delete, no
\* cleanup) and the services deployed before stay deployed.
C5_FailFast ==
    /\ \A i \in 1..Len(log) :
          ~log[i].ok =>
              /\ i = Len(log)
              /\ status = "raised"
              /\ error \in RolloutErrors
              /\ log[i].app \notin Range(apps_deployed)
    /\ status = "raised" => ~NoStepRaised
    /\ \A i \in 1..Len(log) : log[i].op \in RolloutOps
    /\ Range(apps_deployed) =
          {s \in Range(services) :
              \E i \in 1..Len(log) : log[i] = Entry("deploy_app", s, TRUE)}

\* update_app of the second service raised after the first was deployed
C5_Witness ==
    /\ status = "raised"
    /\ Len(apps_deployed) = 1
    /\ Len(log) = 5
    /\ log[5].op = "update_app"
    /\ ~log[5].ok

(***************************************************************************)
(* Claims about the retry decorator                                        *)
(***************************************************************************)
RECURSIVE SumOver(_, _)
SumOver(f, S) ==
    IF S = {} THEN 0
    ELSE LET x == CHOOSE y \in S : TRUE IN f[x] + SumOver(f, S \ {x})

\* the decorator is retry(TRANSIENT_ERRORS)
TransientTable == exception_settings = TRANSIENT_ERRORS
TimesOf(k) ==
    LET i == CHOOSE j \in 1..Len(exception_settings) :
                 exception_settings[j].exc = k
    IN  exception_settings[i].times
\* the wrapped operation raised nothing but e in call c
OnlyRaised(c, e) == \A x \in ExcClasses \ {e} : calls[c].raised[x] = 0
\* invocations of the wrapped operation in call c
Attempts(c) ==
    SumOver(calls[c].raised, ExcClasses)
        + (IF calls[c].st = "returned" THEN 1 ELSE 0)
TotalSlept(c) == SumOver(calls[c].slept, DOMAIN calls[c].slept)
\* call c ended by propagating e
Propagated(c, e) == calls[c].st = "raised" /\ calls[c].exc = e

\* C6: under retry(TRANSIENT_ERRORS) an operation that has raised only the
\* rate-limited error, K times with K not above its budget, has not made the
\* wrapper raise, and the wrapper slept exactly K times, each time for the
\* delay of that class (so that the operation's success is returned).
C6_RetriedThenSucceeds ==
    TransientTable =>
        \A c \in 1..MaxCalls :
            (/\ calls[c].st # "idle"
             /\ OnlyRaised(c, "TooManyRequestsError")
             /\ calls[c].raised["TooManyRequestsError"] <= TooManyTimes)
            => /\ calls[c].st # "raised"
               /\ calls[c].slept[TooManyDelay] =
                      calls[c].raised["TooManyRequestsError"]
               /\ calls[c].slept[ConnectionDelay] = 0

\* the operation raised the rate-limited error as often as the budget allows
\* and then succeeded
C6_Witness ==
    /\ exception_settings = TRANSIENT_ERRORS
    /\ \E c \in 1..MaxCalls :
          /\ calls[c].st = "returned"
          /\ OnlyRaised(c, "TooManyRequestsError")
          /\ calls[c].raised["TooManyRequestsError"] = TooManyTimes
          /\ calls[c].slept[TooManyDelay] = TooManyTimes

\* C7: an operation that keeps raising one transient error makes the wrapper
\* raise it after exactly `budget` attempts of the operation (6 for
\* TooManyRequestsError, 3 for ConnectionError).
C7_RaisesAfterBudgetAttempts ==
    TransientTable =>
        \A c \in 1..MaxCalls :
            \A k \in {"TooManyRequestsError", "ConnectionError"} :
                (Propagated(c, k) /\ OnlyRaised(c, k))
                => Attempts(c) = TimesOf(k)

\* C8: under retry(TRANSIENT_ERRORS) an exception that is neither the
\* rate-limited error nor a connection error is raised at most once by the
\* operation in a call, ends the call with that exception, and is never slept
\* for: the sleeps are those of the transient errors retried before it.
C8_OtherNeverRetried ==
    TransientTable =>
        \A c \in 1..MaxCalls :
            /\ calls[c].raised["Exception"] <= 1
            /\ calls[c].raised["Exception"] = 1 => Propagated(c, "Exception")
            /\ TotalSlept(c) =
                  calls[c].raised["TooManyRequestsError"]
                  + calls[c].raised["ConnectionError"]
                  - (IF calls[c].st = "raised" /\ calls[c].exc # "Exception"
                     THEN 1 ELSE 0)

\* a fatal exception propagated after transient errors of both classes had
\* been retried in the same call
C8_Witness ==
    /\ TransientTable
    /\ \E c \in 1..MaxCalls :
          /\ Propagated(c, "Exception")
          /\ calls[c].raised["TooManyRequestsError"] >= 1
          /\ calls[c].raised["ConnectionError"] >= 1
          /\ TotalSlept(c) =
                calls[c].raised["TooManyRequestsError"]
                + calls[c].raised["ConnectionError"]

\* C9: under retry(TRANSIENT_ERRORS) each call counts the retries of each
\* class by itself, from zero: the counter of a class is the number of times
\* this call retried that class, and a call is ended by a transient error only
\* when the operation raised that class more often than its budget within
\* that call, whatever the other class and the other calls did.
C9_CountersPerClassAndCall ==
    TransientTable =>
        \A c \in 1..MaxCalls :
            /\ \A k \in {"TooManyRequestsError", "ConnectionError"} :
                  /\ Propagated(c, k) => calls[c].raised[k] = TimesOf(k) + 1
                  /\ calls[c].retries_by_exc[k] =
                        calls[c].raised[k] - (IF Propagated(c, k) THEN 1 ELSE 0)
            /\ calls[c].retries_by_exc["Exception"] = 0

\* one call used up both budgets and succeeded, and another call still had the
\* whole budget of the rate-limited error
C9_Witness ==
    /\ exception_settings = TRANSIENT_ERRORS
    /\ calls[1].st = "returned"
    /\ calls[1].raised["TooManyRequestsError"] = TooManyTimes
    /\ calls[1].raised["ConnectionError"] = ConnectionTimes
    /\ calls[2].st = "returned"
    /\ calls[2].raised["TooManyRequestsError"] = TooManyTimes

\* the configured class every other configured class of e is an ancestor of
MostSpecific(T, e) ==
    CHOOSE i \in 1..Len(T) :
        /\ IsInstance(e, T[i].exc)
        /\ \A j \in 1..Len(T) :
              IsInstance(e, T[j].exc) => IsInstance(T[i].exc, T[j].exc)
\* the retries of call c that belong to the configured class k when every
\* exception is classified by its most specific configured class
RetriesOfMostSpecific(c, k) ==
    LET E == {e \in ExcClasses :
                 /\ Caught(exception_settings, e)
                 /\ exception_settings[MostSpecific(exception_settings, e)].exc = k}
        n == [e \in E |->
                 calls[c].raised[e] - (IF Propagated(c, e) THEN 1 ELSE 0)]
    IN  SumOver(n, E)

\* C10: for any table, in any order, an exception that is an instance of
\* several configured classes is retried with the budget and the delay of the
\* most specific of them.
C10_MostSpecificClass ==
    \A c \in 1..MaxCalls :
        \A i \in 1..Len(exception_settings) :
            LET row == exception_settings[i]
            IN  /\ calls[c].retries_by_exc[row.exc] =
                       RetriesOfMostSpecific(c, row.exc)
                /\ calls[c].slept[row.delay] = RetriesOfMostSpecific(c, row.exc)

(***************************************************************************)
(* _wait_until_app_ready and get_app_info.  Both are wrapped by            *)
(* retry(TRANSIENT_ERRORS).  One poll is one call of get_app_info; one     *)
(* fetch is one HTTP request made by it.                                   *)
(***************************************************************************)

\* timeout = 60
TickBudget == 60

\* what one HTTP request for the app's data can yield: a body with status ok
\* whose isAppBuilding is true or false, HTTP 429, a body whose status is
\* not ok, or a connection failure raised by the session.
FetchOutcomes == {"building", "not_building", "429", "bad_status", "no_connection"}

AppInfo(building, poll) == [isAppBuilding |-> building, poll |-> poll]
NoAppInfo == AppInfo(FALSE, 0)

\* while timeout:
TicksLeftButOne(t) == t > 1
TicksLeft(t) == t # 0

\* if not app_info.get("data", {}).get("isAppBuilding"):
IsReadyInverted(info) == info.isAppBuilding
IsReady(info) == ~info.isAppBuilding

\* raise Exception("App building timeout reached")
\* raise Exception("App building failed")
\* (variant: the build errors are of a class that the retry table lists)
BuildErrorTransient == "TooManyRequestsError"
BuildError == "Exception"

\* a retry wrapper around a body that raised e with the counter at counter:
\* TRUE when the wrapper sleeps and runs the body again
Retries(counter, e) ==
    /\ Caught(TRANSIENT_ERRORS, e)
    /\ LET row == TRANSIENT_ERRORS[MatchIndex(TRANSIENT_ERRORS, e)]
       IN  MayRetry(counter[row.exc], RetrySettings(row.times, row.delay))

\* the counter after the wrapper counted one more retry for e
Counted(counter, e) ==
    Count(counter, TRANSIENT_ERRORS[MatchIndex(TRANSIENT_ERRORS, e)].exc)

WaiterIdle ==
    [pc |-> "idle", timeout |-> 0, polls |-> 0, g |-> NewCounter(1),
     w |-> NewCounter(1), app_info |-> NoAppInfo, sawReady |-> FALSE,
     exc |-> "none", cause |-> "none"]

\* the wrapper of _wait_until_app_ready has made its Counter and enters the
\* body, which sets timeout = 60
WaitInit ==
    waiter = [WaiterIdle EXCEPT !.pc = "while", !.timeout = TickBudget]

\* an exception e leaves the body of _wait_until_app_ready and meets its
\* wrapper: a retry runs the whole body again, with timeout = 60
\* (variant: the retry goes on with the ticks that are left)
WaitBodyRaisesKeepingTicks(e, cause) ==
    IF Retries(waiter.w, e)
    THEN waiter' = [waiter EXCEPT !.pc = "while", !.w = Counted(waiter.w, e),
                                  !.g = NewCounter(1),
                                  !.app_info = NoAppInfo, !.sawReady = FALSE]
    ELSE waiter' = [waiter EXCEPT !.pc = "raised", !.exc = e, !.cause = cause]
WaitBodyRaises(e, cause) ==
    IF Retries(waiter.w, e)
    THEN waiter' = [waiter EXCEPT !.pc = "while", !.timeout = TickBudget,
                                  !.polls = 0, !.w = Counted(waiter.w, e),
                                  !.g = NewCounter(1),
                                  !.app_info = NoAppInfo, !.sawReady = FALSE]
    ELSE waiter' = [waiter EXCEPT !.pc = "raised", !.exc = e, !.cause = cause]

\* timeout -= 1; time.sleep(1); then get_app_info is entered
Tick ==
    /\ waiter.pc = "while"
    /\ TicksLeft(waiter.timeout)
    /\ waiter' = [waiter EXCEPT !.pc = "fetch", !.timeout = @ - 1,
                                !.polls = @ + 1, !.g = NewCounter(1)]
    /\ UNCHANGED <<dvars, rvars, deploy, checked, resolver, updater, request, deleter, combined>>

\* the while loop ends: raise Exception("App building timeout reached")
TimeoutReached ==
    /\ waiter.pc = "while"
    /\ ~TicksLeft(waiter.timeout)
    /\ WaitBodyRaises(BuildError, "timeout")
    /\ UNCHANGED <<dvars, rvars, deploy, checked, resolver, updater, request, deleter, combined>>

\* get_app_info returns the body of a response with status ok
FetchReturns(outcome) ==
    /\ waiter.pc = "fetch"
    /\ outcome \in {"building", "not_building"}
    /\ waiter' = [waiter EXCEPT
           !.pc = "test",
           !.g = NewCounter(1),
           !.app_info = AppInfo(outcome = "building", waiter.polls),
           !.sawReady = (outcome = "not_building")]
    /\ UNCHANGED <<dvars, rvars, deploy, checked, resolver, updater, request, deleter, combined>>

\* the request fails with a transient error: HTTP 429 becomes
\* TooManyRequestsError in _check_errors, a connection failure is raised by
\* the session.  The wrapper of get_app_info retries it or lets it out to
\* _wait_until_app_ready, whose body has no handler.
FetchTransient(outcome) ==
    /\ waiter.pc = "fetch"
    /\ outcome \in {"429", "no_connection"}
    /\ LET e == IF outcome = "429" THEN "TooManyRequestsError"
                                   ELSE "ConnectionError"
       IN  IF Retries(waiter.g, e)
           THEN waiter' = [waiter EXCEPT !.g = Counted(waiter.g, e)]
           ELSE WaitBodyRaises(e, "fetch")
    /\ UNCHANGED <<dvars, rvars, deploy, checked, resolver, updater, request, deleter, combined>>

\* the body's status is not ok: _check_errors raises Exception(description)
FetchBadStatus ==
    /\ waiter.pc = "fetch"
    /\ IF Retries(waiter.g, "Exception")
       THEN waiter' = [waiter EXCEPT !.g = Counted(waiter.g, "Exception")]
       ELSE WaitBodyRaises("Exception", "status")
    /\ UNCHANGED <<dvars, rvars, deploy, checked, resolver, updater, request, deleter, combined>>

\* the test of the poll's result: return app_info, or loop
ReturnAppInfo ==
    /\ waiter.pc = "test"
    /\ IsReady(waiter.app_info)
    /\ waiter' = [waiter EXCEPT !.pc = "returned"]
    /\ UNCHANGED <<dvars, rvars, deploy, checked, resolver, updater, request, deleter, combined>>

StillBuilding ==
    /\ waiter.pc = "test"
    /\ ~IsReady(waiter.app_info)
    /\ waiter' = [waiter EXCEPT !.pc = "while"]
    /\ UNCHANGED <<dvars, rvars, deploy, checked, resolver, updater, request, deleter, combined>>

WaitNext ==
    \/ Tick
    \/ TimeoutReached
    \/ \E outcome \in FetchOutcomes : FetchReturns(outcome)
    \/ \E outcome \in FetchOutcomes : FetchTransient(outcome)
    \/ FetchBadStatus
    \/ ReturnAppInfo
    \/ StillBuilding

WaitSpecInit ==
    /\ WaitInit
    /\ DIdle
    /\ RIdle
    /\ deleter = <<>>
    /\ combined = <<>>
    /\ updater = <<>>
    /\ request = <<>>
    /\ deploy = <<>>
    /\ checked = <<>>
    /\ resolver = <<>>

WaitSpec == WaitSpecInit /\ [][WaitNext]_vars

TransientErrors == {"TooManyRequestsError", "ConnectionError"}

\* C11: _wait_until_app_ready returns at the first poll whose result does
\* not report the app as building: once a poll of the current wait has
\* reported that, the wait is at its test or has returned, what it returns
\* is the app info of that very poll, and after returning it does nothing
\* more, so no further poll is made in that wait.
C11_ReturnsAtFirstReadyPoll ==
    /\ waiter.sawReady => waiter.pc \in {"test", "returned"}
    /\ waiter.pc = "returned" =>
           /\ waiter.sawReady
           /\ ~waiter.app_info.isAppBuilding
           /\ waiter.app_info.poll = waiter.polls
           /\ ~ENABLED WaitNext
    /\ waiter.pc \in {"while", "fetch"} /\ waiter.polls > 0 =>
           waiter.app_info.isAppBuilding \/ waiter.app_info = NoAppInfo

C11_Witness ==
    /\ waiter.pc = "returned"
    /\ waiter.polls = 3
    /\ waiter.app_info = AppInfo(FALSE, 3)

\* C12: when every poll of a wait reports the app as building, the wait
\* makes exactly TickBudget polls, one after each one-second tick, and then
\* raises the timeout error without returning an app info; no wait makes
\* more than TickBudget polls.
C12_TimesOutAfterTickBudget ==
    /\ waiter.polls + waiter.timeout = TickBudget
    /\ waiter.polls <= TickBudget
    /\ waiter.cause = "timeout" =>
           /\ waiter.pc = "raised"
           /\ waiter.exc = "Exception"
           /\ waiter.polls = TickBudget
           /\ waiter.app_info = AppInfo(TRUE, TickBudget)
           /\ ~ENABLED WaitNext
    /\ waiter.pc = "while" /\ waiter.polls = TickBudget => ENABLED TimeoutReached

C12_Witness ==
    /\ waiter.pc = "raised"
    /\ waiter.cause = "timeout"
    /\ waiter.polls = TickBudget

\* C13: a transient error raised by a status fetch never ends the wait:
\* the wait ends only by returning an app info or by the timeout error,
\* never by letting TooManyRequestsError or ConnectionError out to its
\* caller.
C13_TransientFetchErrorNeverPropagates ==
    waiter.pc = "raised" => waiter.exc \notin TransientErrors

(***************************************************************************)
(* deploy_app inside deploy_one_click_app.  The rollout of a service       *)
(* reaches deploy_app after create_app and update_app; deploy_app is       *)
(* wrapped by retry(TRANSIENT_ERRORS), sends the trigger request, checks   *)
(* its response, waits for the build with _wait_until_app_ready and then   *)
(* calls _ensure_app_build_success.  The wait is taken by its outcomes,    *)
(* which are the ends of WaitSpec.                                         *)
(***************************************************************************)
DeployIdle ==
    [pc |-> "idle", d |-> NewCounter(1), triggers |-> 0, exc |-> "none",
     cause |-> "none"]

\* the bundles of two services whose depends_on name services of the bundle
DeployBundles == {b \in Bundles(2) : Absent \notin (b[1] \cup b[2])}

DeployInit ==
    /\ services = <<1, 2>>
    /\ depends_on \in DeployBundles
    /\ apps_deployed = <<>>
    /\ pc = "while"
    /\ idx = 0
    /\ log = <<>>
    /\ status = "running"
    /\ error = "none"
    /\ result = 0
    /\ passes = 0
    /\ deploy = DeployIdle

\* an exception e leaves the body of deploy_app and meets its wrapper: a
\* retry runs the body again; otherwise e reaches deploy_one_click_app,
\* which has no handler
DeployBodyRaises(e, cause) ==
    IF Retries(deploy.d, e)
    THEN /\ deploy' = [deploy EXCEPT !.pc = "post", !.d = Counted(deploy.d, e),
                                     !.cause = cause]
         /\ UNCHANGED <<log, status, error, pc, idx>>
    ELSE /\ deploy' = [deploy EXCEPT !.pc = "raised", !.exc = e,
                                     !.cause = cause]
         /\ log' = Append(log, Entry("deploy_app", services[idx], FALSE))
         /\ Propagate(e)

\* the wrapper of deploy_app is entered: retries_by_exc = Counter()
DeployEnter ==
    /\ pc = "deploy_app"
    /\ deploy.pc = "idle"
    /\ deploy' = [DeployIdle EXCEPT !.pc = "post"]
    /\ UNCHANGED <<dvars, rvars, waiter, checked, resolver, updater, request, deleter, combined>>

\* response = self.session.post(...); self._check_errors(response)
PostTrigger(outcome) ==
    /\ pc = "deploy_app"
    /\ deploy.pc = "post"
    /\ outcome \in {"ok", "429", "bad_status", "no_connection"}
    /\ LET sent == [deploy EXCEPT !.triggers = @ + 1]
       IN  CASE outcome = "ok" ->
                  /\ deploy' = [sent EXCEPT !.pc = "wait"]
                  /\ UNCHANGED <<log, status, error, pc, idx>>
             [] outcome = "429" ->
                  IF Retries(deploy.d, "TooManyRequestsError")
                  THEN /\ deploy' = [sent EXCEPT
                              !.d = Counted(deploy.d, "TooManyRequestsError"),
                              !.cause = "trigger"]
                       /\ UNCHANGED <<log, status, error, pc, idx>>
                  ELSE /\ deploy' = [sent EXCEPT !.pc = "raised",
                              !.exc = "TooManyRequestsError",
                              !.cause = "trigger"]
                       /\ log' = Append(log, Entry("deploy_app", services[idx], FALSE))
                       /\ Propagate("TooManyRequestsError")
             [] outcome = "no_connection" ->
                  IF Retries(deploy.d, "ConnectionError")
                  THEN /\ deploy' = [sent EXCEPT
                              !.d = Counted(deploy.d, "ConnectionError"),
                              !.cause = "trigger"]
                       /\ UNCHANGED <<log, status, error, pc, idx>>
                  ELSE /\ deploy' = [sent EXCEPT !.pc = "raised",
                              !.exc = "ConnectionError", !.cause = "trigger"]
                       /\ log' = Append(log, Entry("deploy_app", services[idx], FALSE))
                       /\ Propagate("ConnectionError")
             [] outcome = "bad_status" ->
                  /\ deploy' = [sent EXCEPT !.pc = "raised",
                                            !.exc = "Exception",
                                            !.cause = "status"]
                  /\ log' = Append(log, Entry("deploy_app", services[idx], FALSE))
                  /\ Propagate("Exception")
    /\ UNCHANGED <<rvars, waiter, checked, resolver, services, depends_on,
                   apps_deployed, result, passes, updater, request, deleter, combined>>

\* self._wait_until_app_ready(app_name=app_name) returns the app info
\* (variant: deploy_app returns without _ensure_app_build_success)
WaitReturnsAndDeployAppToo ==
    /\ pc = "deploy_app"
    /\ deploy.pc = "wait"
    /\ deploy' = DeployIdle
    /\ log' = Append(log, Entry("deploy_app", services[idx], TRUE))
    /\ apps_deployed' = Append(apps_deployed, services[idx])
    /\ pc' = "for"
    /\ idx' = idx + 1
    /\ UNCHANGED <<rvars, waiter, checked, resolver, services, depends_on,
                   status, error, result, passes, updater, request, deleter, combined>>
WaitReturns ==
    /\ pc = "deploy_app"
    /\ deploy.pc = "wait"
    /\ deploy' = [deploy EXCEPT !.pc = "ensure"]
    /\ UNCHANGED <<dvars, rvars, waiter, checked, resolver, updater, request, deleter, combined>>

\* self._wait_until_app_ready raises: the timeout error, a transient error
\* that its own retries did not absorb, or the error of a status not ok
WaitRaises(e, cause) ==
    /\ pc = "deploy_app"
    /\ deploy.pc = "wait"
    /\ \/ e = BuildError /\ cause = "timeout"
       \/ e \in TransientErrors /\ cause = "fetch"
       \/ e = "Exception" /\ cause = "status"
    /\ DeployBodyRaises(e, cause)
    /\ UNCHANGED <<rvars, waiter, checked, resolver, services, depends_on,
                   apps_deployed, result, passes, updater, request, deleter, combined>>

\* time.sleep(0.50); _ensure_app_build_success finds isBuildFailed unset;
\* deploy_app returns and the rollout appends the service to apps_deployed
EnsureBuildSucceeded ==
    /\ pc = "deploy_app"
    /\ deploy.pc = "ensure"
    /\ deploy' = DeployIdle
    /\ log' = Append(log, Entry("deploy_app", services[idx], TRUE))
    /\ apps_deployed' = Append(apps_deployed, services[idx])
    /\ pc' = "for"
    /\ idx' = idx + 1
    /\ UNCHANGED <<rvars, waiter, checked, resolver, services, depends_on,
                   status, error, result, passes, updater, request, deleter, combined>>

\* _ensure_app_build_success: raise Exception("App building failed"), or
\* its get_app_info raises
EnsureRaises(e, cause) ==
    /\ pc = "deploy_app"
    /\ deploy.pc = "ensure"
    /\ \/ e = BuildError /\ cause = "build_failed"
       \/ e \in TransientErrors /\ cause = "fetch"
       \/ e = "Exception" /\ cause = "status"
    /\ DeployBodyRaises(e, cause)
    /\ UNCHANGED <<rvars, waiter, checked, resolver, services, depends_on,
                   apps_deployed, result, passes, updater, request, deleter, combined>>

RaiseCauses == {"timeout", "build_failed", "fetch", "status"}

DeployNext ==
    \/ WhileEnter
    \/ Return
    \/ ForExhausted
    \/ SkipDeployed
    \/ SkipBlocked
    \/ CreateAppOk
    \/ CreateAppRaises
    \/ UpdateAppOk
    \/ UpdateAppRaises
    \/ DeployEnter
    \/ \E outcome \in FetchOutcomes \cup {"ok"} : PostTrigger(outcome)
    \/ WaitReturns
    \/ \E e \in ExcClasses, cause \in RaiseCauses : WaitRaises(e, cause)
    \/ EnsureBuildSucceeded
    \/ \E e \in ExcClasses, cause \in RaiseCauses : EnsureRaises(e, cause)

DeploySpecInit ==
    /\ DeployInit
    /\ RIdle
    /\ deleter = <<>>
    /\ combined = <<>>
    /\ updater = <<>>
    /\ request = <<>>
    /\ waiter = <<>>
    /\ checked = <<>>
    /\ resolver = <<>>

DeploySpec == DeploySpecInit /\ [][DeployNext]_vars

BuildCauses == {"timeout", "build_failed"}
Dependents(s) == {t \in Range(services) : s \in depends_on[t]}

\* C14: a build timeout raised by the wait and a build failure found by
\* _ensure_app_build_success are not retried by the wrapper of deploy_app:
\* as soon as one of them has been raised the call of deploy_one_click_app
\* has ended with that exception, the service is not in apps_deployed, no
\* operation was started for any service that depends on it, and nothing
\* more runs.  The trigger request was sent once for the first run of the
\* body of deploy_app and once per counted retry, never for a build error.
C14_BuildErrorsAreFatal ==
    /\ deploy.triggers <=
           1 + deploy.d["TooManyRequestsError"] + deploy.d["ConnectionError"]
    /\ deploy.cause \in BuildCauses =>
           /\ deploy.pc = "raised"
           /\ deploy.exc = BuildError
           /\ status = "raised"
           /\ error = "Exception"
           /\ services[idx] \notin Range(apps_deployed)
           /\ \A i \in 1..Len(log) : log[i].app \notin Dependents(services[idx])
           /\ Range(apps_deployed) # Range(apps_to_deploy)
           /\ ~ENABLED DeployNext

C14_Witness ==
    /\ deploy.cause = "build_failed"
    /\ deploy.d["TooManyRequestsError"] = 1
    /\ status = "raised"
    /\ Dependents(services[idx]) = {2}
    /\ log = << Entry("create_app", 1, TRUE), Entry("update_app", 1, TRUE),
                Entry("deploy_app", 1, FALSE) >>

(***************************************************************************)
(* _check_errors(response).  A response has an HTTP status code and a      *)
(* body; response.json() fails on a body that is not JSON.  A body has a   *)
(* status and may have a description.                                      *)
(***************************************************************************)
HttpCodes == {200, HTTP_TOO_MANY_REQUESTS, 500}
BodyStatuses ==
    {STATUS_OK, STATUS_OK_DEPLOY_STARTED, STATUS_OK_PARTIALLY,
     STATUS_ERROR_GENERIC, STATUS_ERROR_ALREADY_EXIST}
Descriptions == {"", "App already exists", "Done"}

\* has_description is FALSE when the body has no 'description' key
Bodies ==
    [readable : {TRUE}, status : BodyStatuses,
     has_description : BOOLEAN, description : Descriptions]
NoBody ==
    [readable |-> FALSE, status |-> STATUS_ERROR_GENERIC,
     has_description |-> FALSE, description |-> ""]
Responses ==
    [status_code : HttpCodes,
     body : {b \in Bodies : b.has_description \/ b.description = ""}
            \cup {NoBody}]

\* if response.status_code == 429:
\* (variant: the body's status decides whether a 429 is an error)
RateLimitedUnlessBodyOk(response) ==
    /\ response.status_code = HTTP_TOO_MANY_REQUESTS
    /\ ~(response.body.readable /\ response.body.status = STATUS_OK)
RateLimited(response) == response.status_code = HTTP_TOO_MANY_REQUESTS

\* response_json.get('description', '')
DescriptionOf(body) ==
    IF body.has_description THEN body.description ELSE ""

\* response_json['status'] not in [STATUS_OK, STATUS_OK_PARTIALLY]
\* (variant: STATUS_OK_DEPLOY_STARTED is in the list too)
StatusNotOkUnlessStarted(body) ==
    body.status \notin {STATUS_OK, STATUS_OK_DEPLOY_STARTED, STATUS_OK_PARTIALLY}
StatusNotOk(body) == body.status \notin {STATUS_OK, STATUS_OK_PARTIALLY}

CheckInit ==
    \E response \in Responses :
        checked = [pc |-> "status_code", response |-> response,
                   description |-> "", exc |-> "none", message |-> "",
                   returned |-> NoBody]

\* the test of the HTTP status code
CheckStatusCode ==
    /\ checked.pc = "status_code"
    /\ IF RateLimited(checked.response)
       THEN checked' = [checked EXCEPT !.pc = "raised",
                            !.exc = "TooManyRequestsError",
                            !.message = "HTTP 429 Too Many Requests"]
       ELSE checked' = [checked EXCEPT !.pc = "json"]
    /\ UNCHANGED <<dvars, rvars, waiter, deploy, resolver, updater, request, deleter, combined>>

\* response_json = response.json(); description = ...
ReadJson ==
    /\ checked.pc = "json"
    /\ IF checked.response.body.readable
       THEN checked' = [checked EXCEPT !.pc = "status",
                            !.description = DescriptionOf(checked.response.body)]
       ELSE checked' = [checked EXCEPT !.pc = "raised",
                            !.exc = "JSONDecodeError"]
    /\ UNCHANGED <<dvars, rvars, waiter, deploy, resolver, updater, request, deleter, combined>>

\* the test of the body's status: raise Exception(description), or return
CheckBodyStatus ==
    /\ checked.pc = "status"
    /\ IF StatusNotOk(checked.response.body)
       THEN checked' = [checked EXCEPT !.pc = "raised", !.exc = "Exception",
                            !.message = checked.description]
       ELSE checked' = [checked EXCEPT !.pc = "returned",
                            !.returned = checked.response.body]
    /\ UNCHANGED <<dvars, rvars, waiter, deploy, resolver, updater, request, deleter, combined>>

CheckNext ==
    \/ CheckStatusCode
    \/ ReadJson
    \/ CheckBodyStatus

CheckSpecInit ==
    /\ CheckInit
    /\ DIdle
    /\ RIdle
    /\ deleter = <<>>
    /\ combined = <<>>
    /\ updater = <<>>
    /\ request = <<>>
    /\ waiter = <<>>
    /\ deploy = <<>>
    /\ resolver = <<>>

CheckSpec == CheckSpecInit /\ [][CheckNext]_vars

CheckEnded == checked.pc \in {"raised", "returned"}

\* C15: _check_errors raises TooManyRequestsError for every response whose
\* HTTP status is 429, whatever its body is; for every other response whose
\* body has a status that is not ok it raises an Exception that no retry
\* table lists and whose message is the body's description; it returns the
\* body only when the HTTP status is not 429 and the body's status is ok.
C15_CheckErrors ==
    LET r == checked.response
    IN  /\ checked.pc # "status_code" /\ r.status_code = HTTP_TOO_MANY_REQUESTS =>
               checked.pc = "raised" /\ checked.exc = "TooManyRequestsError"
        /\ checked.exc = "TooManyRequestsError" =>
               r.status_code = HTTP_TOO_MANY_REQUESTS
        /\ /\ CheckEnded
           /\ r.status_code # HTTP_TOO_MANY_REQUESTS
           /\ r.body.readable
           /\ r.body.status \notin {STATUS_OK, STATUS_OK_PARTIALLY}
           => /\ checked.pc = "raised"
              /\ checked.exc = "Exception"
              /\ ~Caught(TRANSIENT_ERRORS, checked.exc)
              /\ checked.message = DescriptionOf(r.body)
        /\ checked.pc = "returned" =>
               /\ r.status_code # HTTP_TOO_MANY_REQUESTS
               /\ r.body.status \in {STATUS_OK, STATUS_OK_PARTIALLY}
               /\ checked.returned = r.body
        /\ ~CheckEnded => ENABLED CheckNext

C15_Witness ==
    /\ checked.pc = "raised"
    /\ checked.exc = "TooManyRequestsError"
    /\ checked.response.body.readable
    /\ checked.response.body.status = STATUS_OK

(***************************************************************************)
(* _resolve_app_variables(raw_app_definition, cap_app_name, app_variables, *)
(* automated).                                                             *)
(*                                                                         *)
(* A text is a sequence of symbols: a symbol is one character, the id of a *)
(* variable, or a random hex directive; ids are unique by prefix, so that  *)
(* str.replace of an id acts on whole symbols.  The bundle text is taken   *)
(* by its parts: the text of the services, and for each declared variable  *)
(* the texts of its id and of its defaultValue and its validRegex.         *)
(* str.replace acts on every part.                                         *)
(***************************************************************************)
V1 == "$$cap_v1"
V2 == "$$cap_v2"
APPNAME == "$$cap_appname"
ROOT_DOMAIN == "$$cap_root_domain"
HEX1 == "$$cap_gen_random_hex(1)"
HEX2 == "$$cap_gen_random_hex(2)"

DeclaredIds == <<V1, V2>>
Directives == {HEX1, HEX2}
\* the characters secrets.token_hex is taken to draw from
HexDigits == {"0", "a"}
Symbols == {V1, V2, APPNAME, HEX2, "z"}

\* int(match.group(1))
RequestedLength(directive) == IF directive = HEX1 THEN 1 ELSE 2

\* a value is None or a text
None == [none |-> TRUE, text |-> <<>>]
Text(t) == [none |-> FALSE, text |-> t]
\* str(variable_value)
Str(v) == IF v.none THEN <<"N", "o", "n", "e">> ELSE v.text

TextsUpTo(n) == UNION {[1..k -> Symbols] : k \in 0..n}

\* secrets.token_hex(requested_length)[:requested_length]
\* (variant: without the slice, two characters per requested character)
HexStringsUnsliced(n) == [1..(2 * n) -> HexDigits]
HexStrings(n) == [1..n -> HexDigits]

\* text.replace(old, new) for a symbol old
RECURSIVE Replace(_, _, _)
Replace(text, old, new) ==
    IF text = <<>> THEN <<>>
    ELSE (IF Head(text) = old THEN new ELSE <<Head(text)>>)
         \o Replace(Tail(text), old, new)

ReplaceValue(v, old, new) ==
    IF v.none THEN v ELSE Text(Replace(v.text, old, new))

\* raw_app_data.replace(old, new) on every part of the bundle text
ReplaceRaw(raw, old, new) ==
    [text |-> Replace(raw.text, old, new),
     decl |-> [k \in DOMAIN raw.decl |->
                 [raw.decl[k] EXCEPT
                     !.id = Replace(@, old, new),
                     !.defaultValue = ReplaceValue(@, old, new)]]]

\* the declaration of a variable: defaultValue absent, null, or a text;
\* validRegex absent or a pattern for lowercase hex
NoRegex == "absent"
HexRegex == "/^[0-9a-f]+$/"
Declaration(id, has_default, defaultValue, validRegex) ==
    [id |-> <<id>>, has_default |-> has_default,
     defaultValue |-> defaultValue, validRegex |-> validRegex]

Declarations(id) ==
    {Declaration(id, FALSE, None, NoRegex),
     Declaration(id, FALSE, None, HexRegex),
     Declaration(id, TRUE, None, NoRegex),
     Declaration(id, TRUE, Text(<<>>), NoRegex),
     Declaration(id, TRUE, Text(<<>>), HexRegex),
     Declaration(id, TRUE, Text(<<"a">>), HexRegex),
     Declaration(id, TRUE, Text(<<"z">>), HexRegex),
     Declaration(id, TRUE, Text(<<"z">>), NoRegex),
     Declaration(id, TRUE, Text(<<HEX2>>), HexRegex),
     Declaration(id, TRUE, Text(<<HEX1>>), NoRegex)}

\* a second variable: without a default, or with one that names the first
\* variable, is a directive, or is static
LaterDeclarations(id) ==
    {Declaration(id, FALSE, None, NoRegex),
     Declaration(id, TRUE, Text(<<V1>>), NoRegex),
     Declaration(id, TRUE, Text(<<HEX2>>), HexRegex),
     Declaration(id, TRUE, Text(<<"a">>), HexRegex)}

DeclLists ==
    {<<>>} \cup {<<d>> : d \in Declarations(V1)}
    \cup {<<d1, d2>> : d1 \in Declarations(V1), d2 \in LaterDeclarations(V2)}

\* the mappings a caller passes, in dict order
Item(k, v) == [key |-> k, value |-> v]
CallerValues == {Text(<<"z">>), Text(<<V2>>)}
CallerMappings ==
    {<<>>}
    \cup {<<Item(k, v)>> :
            k \in {V1, V2}, v \in CallerValues \cup {None, Text(<<>>)}}
    \cup {<<Item(p[1], v1), Item(p[2], v2)>> :
            p \in {<<V1, V2>>, <<V2, V1>>}, v1 \in CallerValues,
            v2 \in CallerValues}

\* dict operations on a sequence of items in insertion order
Has(d, k) == \E i \in 1..Len(d) : d[i].key = k
Get(d, k) ==
    IF Has(d, k) THEN d[CHOOSE i \in 1..Len(d) : d[i].key = k].value ELSE None
Set(d, k, v) ==
    IF Has(d, k)
    THEN [i \in 1..Len(d) |-> IF d[i].key = k THEN Item(k, v) ELSE d[i]]
    ELSE Append(d, Item(k, v))

\* app_variables.update({key: value})
\* (variant: a key the caller supplied keeps the caller's value)
UpdateKeepingCallers(d, k, v) == IF Has(d, k) THEN d ELSE Set(d, k, v)
Update(d, k, v) == Set(d, k, v)

\* the directives matched by re.finditer(r"\$\$cap_gen_random_hex\((\d+)\)")
\* in a text, in order
RECURSIVE MatchesIn(_)
MatchesIn(text) ==
    IF text = <<>> THEN <<>>
    ELSE (IF Head(text) \in Directives THEN <<Head(text)>> ELSE <<>>)
         \o MatchesIn(Tail(text))

RECURSIVE MatchesInDecl(_, _)
MatchesInDecl(decl, k) ==
    IF k > Len(decl) THEN <<>>
    ELSE MatchesIn(Str(decl[k].defaultValue)) \o MatchesInDecl(decl, k + 1)

MatchesInRaw(raw) == MatchesIn(raw.text) \o MatchesInDecl(raw.decl, 1)

\* app_variable.get('defaultValue', '')
\* (variant: the declared default is not read)
DefaultOfNothing(variable) == Text(<<>>)
DefaultOf(variable) ==
    IF variable.has_default THEN variable.defaultValue ELSE Text(<<>>)

\* app_variable.get('validRegex', '.*').strip('/')
PatternOf(variable) ==
    IF variable.validRegex = NoRegex THEN ".*" ELSE "^[0-9a-f]+$"

\* re.search(pattern, text) for the two patterns
Search(pattern, text) ==
    IF pattern = ".*" THEN TRUE
    ELSE /\ text # <<>>
         /\ \A i \in 1..Len(text) : text[i] \in HexDigits

\* is_valid = re.search(...) if default_value is not None else False
\* (variant: an empty default never is valid)
IsValidAndNotEmpty(variable) ==
    LET default_value == DefaultOf(variable)
    IN  /\ ~default_value.none
        /\ default_value.text # <<>>
        /\ Search(PatternOf(variable), default_value.text)
IsValid(variable) ==
    LET default_value == DefaultOf(variable)
    IN  IF default_value.none THEN FALSE
        ELSE Search(PatternOf(variable), default_value.text)

\* app_variables.get(app_variable['id']) is None
\* (variant: the caller's value is not looked at)
IsMissingAlways(app_variables, id) == TRUE
\* (variant: a falsy value, the empty string included, counts as missing)
IsMissingOrEmpty(app_variables, id) ==
    Get(app_variables, id).none \/ Get(app_variables, id).text = <<>>
IsMissing(app_variables, id) == Get(app_variables, id).none

\* what input() can return
Entered == {Text(<<"z">>)}

\* cap_app_name and self.root_domain
CapAppName == <<"n">>
RootDomain == <<"d">>

Bundle(text, decl) == [text |-> text, decl |-> decl]

ResolveInit ==
    \E text \in TextsUpTo(MaxLen), decl \in DeclLists,
       app_variables \in CallerMappings, automated \in BOOLEAN :
        resolver =
            [pc |-> "hex",
             bundle |-> Bundle(text, decl),
             supplied |-> app_variables,
             automated |-> automated,
             raw_app_data |-> Bundle(text, decl),
             matches |-> MatchesInRaw(Bundle(text, decl)),
             app_variables |-> app_variables,
             variables |-> <<>>,
             i |-> 0,
             message |-> ""]

\* one iteration of the loop over the matches: every occurrence of the
\* matched directive in raw_app_data is replaced by one generated value
ReplaceRandomHex ==
    /\ resolver.pc = "hex"
    /\ resolver.matches # <<>>
    /\ LET directive == Head(resolver.matches)
       IN  \E h \in HexStrings(RequestedLength(directive)) :
              resolver' = [resolver EXCEPT
                  !.raw_app_data = ReplaceRaw(@, directive, h),
                  !.matches = Tail(@)]
    /\ UNCHANGED <<dvars, rvars, waiter, deploy, checked, updater, request, deleter, combined>>

\* app_variables.update({...}); _app_data = json.loads(raw_app_data);
\* variables = ...
UpdateAndLoad ==
    /\ resolver.pc = "hex"
    /\ resolver.matches = <<>>
    /\ resolver' = [resolver EXCEPT
           !.pc = "variables",
           !.app_variables =
               Update(Update(@, APPNAME, Text(CapAppName)),
                      ROOT_DOMAIN, Text(RootDomain)),
           !.variables =
               [k \in DOMAIN resolver.raw_app_data.decl |->
                   [resolver.raw_app_data.decl[k] EXCEPT !.id = Head(@)]],
           !.i = 1]
    /\ UNCHANGED <<dvars, rvars, waiter, deploy, checked, updater, request, deleter, combined>>

\* one iteration of "for app_variable in variables"
ResolveVariable ==
    /\ resolver.pc = "variables"
    /\ resolver.i <= Len(resolver.variables)
    /\ LET app_variable == resolver.variables[resolver.i]
           next == [resolver EXCEPT !.i = @ + 1]
       IN  IF IsMissing(resolver.app_variables, app_variable.id)
           THEN IF IsValid(app_variable)
                THEN resolver' = [next EXCEPT !.app_variables =
                         Set(@, app_variable.id, DefaultOf(app_variable))]
                ELSE IF resolver.automated
                     THEN resolver' = [resolver EXCEPT
                              !.pc = "raised", !.message = app_variable.id]
                     ELSE \E default_value \in Entered :
                              resolver' = [next EXCEPT !.app_variables =
                                  Set(@, app_variable.id, default_value)]
           ELSE resolver' = next
    /\ UNCHANGED <<dvars, rvars, waiter, deploy, checked, updater, request, deleter, combined>>

\* the loop over the variables is done; the loop over app_variables.items()
\* starts
VariablesDone ==
    /\ resolver.pc = "variables"
    /\ resolver.i > Len(resolver.variables)
    /\ resolver' = [resolver EXCEPT !.pc = "items", !.i = 1]
    /\ UNCHANGED <<dvars, rvars, waiter, deploy, checked, updater, request, deleter, combined>>

\* raw_app_data = raw_app_data.replace(variable_id, str(variable_value))
SubstituteVariable ==
    /\ resolver.pc = "items"
    /\ resolver.i <= Len(resolver.app_variables)
    /\ LET item == resolver.app_variables[resolver.i]
       IN  resolver' = [resolver EXCEPT
               !.raw_app_data = ReplaceRaw(@, item.key, Str(item.value)),
               !.i = @ + 1]
    /\ UNCHANGED <<dvars, rvars, waiter, deploy, checked, updater, request, deleter, combined>>

\* return raw_app_data
ReturnResolved ==
    /\ resolver.pc = "items"
    /\ resolver.i > Len(resolver.app_variables)
    /\ resolver' = [resolver EXCEPT !.pc = "returned"]
    /\ UNCHANGED <<dvars, rvars, waiter, deploy, checked, updater, request, deleter, combined>>

ResolveNext ==
    \/ ReplaceRandomHex
    \/ UpdateAndLoad
    \/ ResolveVariable
    \/ VariablesDone
    \/ SubstituteVariable
    \/ ReturnResolved

ResolveSpecInit ==
    /\ ResolveInit
    /\ DIdle
    /\ RIdle
    /\ deleter = <<>>
    /\ combined = <<>>
    /\ updater = <<>>
    /\ request = <<>>
    /\ waiter = <<>>
    /\ deploy = <<>>
    /\ checked = <<>>

ResolveSpec == ResolveSpecInit /\ [][ResolveNext]_vars

(***************************************************************************)
(* Properties of the resolver.  The output is read against the bundle text *)
(* by Reads: a directive for n characters must have become n hex           *)
(* characters, a resolved id its value, every other symbol must be         *)
(* unchanged.  It substitutes all ids at once, where the code substitutes  *)
(* one id after the other.                                                 *)
(***************************************************************************)
AllIds == {V1, V2, APPNAME, ROOT_DOMAIN}

Unresolved == [resolved |-> FALSE, text |-> <<>>]
ResolvedTo(t) == [resolved |-> TRUE, text |-> t]

\* the values the resolver has settled on
SigmaOf(app_variables) ==
    [id \in AllIds |->
        IF Has(app_variables, id)
        THEN ResolvedTo(Str(Get(app_variables, id)))
        ELSE Unresolved]

RECURSIVE Reads(_, _, _)
Reads(orig, out, sigma) ==
    IF orig = <<>> THEN out = <<>>
    ELSE LET s == Head(orig)
             rest == Tail(orig)
         IN  IF s \in Directives
             THEN LET n == RequestedLength(s)
                  IN  /\ Len(out) >= n
                      /\ \A i \in 1..n : out[i] \in HexDigits
                      /\ Reads(rest, SubSeq(out, n + 1, Len(out)), sigma)
             ELSE IF s \in AllIds /\ sigma[s].resolved
             THEN LET v == sigma[s].text
                  IN  /\ Len(out) >= Len(v)
                      /\ SubSeq(out, 1, Len(v)) = v
                      /\ Reads(rest, SubSeq(out, Len(v) + 1, Len(out)), sigma)
             ELSE /\ out # <<>>
                  /\ Head(out) = s
                  /\ Reads(rest, Tail(out), sigma)

\* every part of the output reads as the same part of the bundle
ReadsRaw(bundle, raw, sigma) ==
    /\ Reads(bundle.text, raw.text, sigma)
    /\ Len(raw.decl) = Len(bundle.decl)
    /\ \A k \in 1..Len(bundle.decl) :
          /\ Reads(bundle.decl[k].id, raw.decl[k].id, sigma)
          /\ raw.decl[k].defaultValue.none = bundle.decl[k].defaultValue.none
          /\ Reads(bundle.decl[k].defaultValue.text,
                   raw.decl[k].defaultValue.text, sigma)

RECURSIVE SymbolsOfDecl(_, _)
SymbolsOfDecl(decl, k) ==
    IF k > Len(decl) THEN {}
    ELSE Range(decl[k].id) \cup Range(decl[k].defaultValue.text)
         \cup SymbolsOfDecl(decl, k + 1)
SymbolsOfRaw(raw) == Range(raw.text) \cup SymbolsOfDecl(raw.decl, 1)

\* no value the resolver substitutes names a variable
PlainValues(app_variables) ==
    \A i \in 1..Len(app_variables) :
        Range(Str(app_variables[i].value)) \cap AllIds = {}

DeclaredAt(k, id) ==
    /\ k \in 1..Len(resolver.bundle.decl)
    /\ resolver.bundle.decl[k].id = <<id>>

\* a static default: a text without directive and without id
StaticDefault(d) ==
    /\ d.has_default
    /\ ~d.defaultValue.none
    /\ Range(d.defaultValue.text) \cap (Directives \cup AllIds) = {}

\* C16: for a declared variable that has a caller-supplied value and a
\* default value, the resolver settles on the caller's value, and (when no
\* substituted value names a variable) the returned text is the bundle text
\* with every occurrence of the id replaced by the caller's value.
C16_CallerValueWins ==
    \A k \in 1..Len(resolver.bundle.decl), id \in {V1, V2} :
        /\ DeclaredAt(k, id)
        /\ resolver.bundle.decl[k].has_default
        /\ ~resolver.bundle.decl[k].defaultValue.none
        /\ ~Get(resolver.supplied, id).none
        =>
        LET value == Get(resolver.supplied, id).text
        IN  /\ resolver.pc \in {"items", "returned"} =>
                  Get(resolver.app_variables, id) = Text(value)
            /\ resolver.pc = "returned" /\ PlainValues(resolver.app_variables) =>
                  ReadsRaw(resolver.bundle, resolver.raw_app_data,
                           [SigmaOf(resolver.app_variables)
                               EXCEPT ![id] = ResolvedTo(value)])

C16_Witness ==
    /\ resolver.pc = "returned"
    /\ resolver.bundle.text = <<V1>>
    /\ resolver.bundle.decl =
           <<Declaration(V1, TRUE, Text(<<"a">>), HexRegex)>>
    /\ resolver.supplied = <<Item(V1, Text(<<"z">>))>>
    /\ resolver.raw_app_data.text = <<"z">>

\* C32: a value the caller supplies for a declared variable, when it is not
\* None, is the value the resolver settles on, whether or not it matches the
\* variable's validRegex and the empty string included: the default is not
\* taken and the resolver never fails on that variable.  A caller value of
\* None is treated as no value: the resolver settles on the default when it
\* is valid, and otherwise gets past the variable only with an entered
\* value in non-automated mode.
C32_CallerValueNotValidated ==
    \A k \in 1..Len(resolver.bundle.decl), id \in {V1, V2} :
        DeclaredAt(k, id) /\ Has(resolver.supplied, id) =>
            LET given == Get(resolver.supplied, id)
                settled == resolver.pc \in {"items", "returned"}
                variable == IF resolver.pc = "hex"
                            THEN resolver.bundle.decl[k]
                            ELSE resolver.variables[k]
            IN  IF ~given.none
                THEN /\ settled => Get(resolver.app_variables, id) = given
                     /\ ~(resolver.pc = "raised" /\ resolver.message = id)
                ELSE settled =>
                        IF IsValid(variable)
                        THEN Get(resolver.app_variables, id)
                                 = DefaultOf(variable)
                        ELSE /\ ~resolver.automated
                             /\ Get(resolver.app_variables, id) \in Entered

C32_Witness ==
    /\ resolver.pc = "returned"
    /\ resolver.automated
    /\ resolver.bundle.text = <<V1>>
    /\ resolver.bundle.decl = <<Declaration(V1, FALSE, None, HexRegex)>>
    /\ resolver.supplied = <<Item(V1, Text(<<>>))>>
    /\ ~Search(PatternOf(resolver.bundle.decl[1]), <<>>)
    /\ resolver.raw_app_data.text = <<>>

\* C17: the returned text contains no occurrence of the id of any variable
\* the resolver has a value for, declared or implicit.
C17_NoPlaceholderRemains ==
    resolver.pc = "returned" =>
        \A i \in 1..Len(resolver.app_variables) :
            resolver.app_variables[i].key \notin
                SymbolsOfRaw(resolver.raw_app_data)

\* the declared variables that the caller's mapping does not hold and whose
\* default is as C18 says: missing, empty or failing its pattern
AbsentFromCaller(id) == ~Has(resolver.supplied, id)
FailsPattern(d) ==
    \/ DefaultOf(d).none
    \/ ~Search(PatternOf(d), DefaultOf(d).text)
MissingOrEmpty(d) ==
    \/ ~d.has_default
    \/ d.defaultValue.none
    \/ d.defaultValue.text = <<>>

\* C18 as stated: in automated mode, a declared variable that is absent
\* from the caller's mapping and whose default is missing, empty or fails
\* its pattern makes the call fail: no text is returned.
C18_Stated ==
    resolver.automated /\ resolver.pc = "returned" =>
        \A k \in 1..Len(resolver.bundle.decl) :
            AbsentFromCaller(resolver.bundle.decl[k].id[1]) =>
                /\ ~MissingOrEmpty(resolver.bundle.decl[k])
                /\ ~FailsPattern(resolver.variables[k])

\* C18 amended: in automated mode, a declared variable that is absent from
\* the caller's mapping and whose default is null or fails its pattern
\* makes the call fail with an error naming the first such variable, and no
\* text is returned; a missing default counts as the empty text, and the
\* empty text is accepted when the pattern (by default '.*') matches it.
C18_FailsOnNullOrInvalidDefault ==
    /\ resolver.automated /\ resolver.pc = "returned" =>
           \A k \in 1..Len(resolver.bundle.decl) :
               AbsentFromCaller(resolver.bundle.decl[k].id[1]) =>
                   ~FailsPattern(resolver.variables[k])
    /\ resolver.pc = "raised" =>
           /\ resolver.automated
           /\ \E k \in 1..Len(resolver.variables) :
                 /\ resolver.variables[k].id = resolver.message
                 /\ Get(resolver.supplied, resolver.message).none
                 /\ FailsPattern(resolver.variables[k])
                 /\ \A j \in 1..(k - 1) :
                       \/ ~Get(resolver.supplied, resolver.variables[j].id).none
                       \/ ~FailsPattern(resolver.variables[j])

C18_Witness ==
    /\ resolver.pc = "raised"
    /\ resolver.message = V1
    /\ resolver.supplied = <<>>
    /\ resolver.bundle.decl =
           <<Declaration(V1, TRUE, Text(<<"z">>), HexRegex)>>

\* C19: in automated mode, a declared variable that is absent from the
\* caller's mapping and has a static default that its pattern accepts is
\* resolved to that default: the call does not raise for it, and (when no
\* substituted value names a variable) the returned text is the bundle text
\* with every occurrence of the id replaced by the default.
C19_StaticDefault ==
    \A k \in 1..Len(resolver.bundle.decl), id \in {V1, V2} :
        /\ resolver.automated
        /\ DeclaredAt(k, id)
        /\ AbsentFromCaller(id)
        /\ StaticDefault(resolver.bundle.decl[k])
        /\ ~FailsPattern(resolver.bundle.decl[k])
        =>
        LET value == resolver.bundle.decl[k].defaultValue.text
        IN  /\ resolver.pc = "raised" => resolver.message # id
            /\ resolver.pc \in {"items", "returned"} =>
                  Get(resolver.app_variables, id) = Text(value)
            /\ resolver.pc = "returned" /\ PlainValues(resolver.app_variables) =>
                  ReadsRaw(resolver.bundle, resolver.raw_app_data,
                           [SigmaOf(resolver.app_variables)
                               EXCEPT ![id] = ResolvedTo(value)])

C19_Witness ==
    /\ resolver.pc = "returned"
    /\ resolver.automated
    /\ resolver.bundle.text = <<V1>>
    /\ resolver.bundle.decl =
           <<Declaration(V1, TRUE, Text(<<"a">>), HexRegex)>>
    /\ resolver.supplied = <<>>
    /\ resolver.raw_app_data.text = <<"a">>

\* C20: once the loop over the matches is done, every directive of the
\* bundle text, in the services text and in a default value alike, has
\* become as many hex characters as it requests and nothing else has
\* changed; the returned text contains no directive.
C20_RandomHexLength ==
    /\ resolver.pc = "variables" =>
           ReadsRaw(resolver.bundle, resolver.raw_app_data,
                    [id \in AllIds |-> Unresolved])
    /\ resolver.pc \notin {"hex"} =>
           SymbolsOfRaw(resolver.raw_app_data) \cap Directives = {}

C20_Witness ==
    /\ resolver.pc = "returned"
    /\ resolver.bundle.text = <<HEX2>>
    /\ Len(resolver.bundle.decl) = 1
    /\ resolver.bundle.decl[1].defaultValue = Text(<<HEX1>>)
    /\ resolver.raw_app_data.text = <<"0", "a">>
    /\ resolver.raw_app_data.decl[1].defaultValue = Text(<<"a">>)

\* the occurrences of directives that are still in raw_app_data
DirectivesLeft(raw) == Len(MatchesInRaw(raw))

\* C21: every occurrence of a directive is replaced by a value generated
\* for it alone: while the loop over the matches runs, each match that has
\* not had its iteration yet still has its directive in raw_app_data, so no
\* occurrence has been given the value generated for another occurrence.
C21_EachOccurrenceOwnValue ==
    resolver.pc = "hex" =>
        DirectivesLeft(resolver.raw_app_data) = Len(resolver.matches)

(***************************************************************************)
(* The implicit variables.  The resolver is run on bundle texts that name  *)
(* $$cap_appname and $$cap_root_domain, with caller mappings that may hold *)
(* values under those ids.                                                 *)
(***************************************************************************)
TextsOver(S, n) == UNION {[1..k -> S] : k \in 0..n}

ImplicitSymbols == {APPNAME, ROOT_DOMAIN, V1, "z"}
ImplicitDeclLists ==
    {<<>>,
     <<Declaration(V1, TRUE, Text(<<"a">>), NoRegex)>>,
     <<Declaration(V1, TRUE, Text(<<APPNAME>>), NoRegex)>>}
ImplicitKeys == {APPNAME, ROOT_DOMAIN, V1}
ImplicitMappings ==
    {<<>>}
    \cup {<<Item(k, v)>> : k \in ImplicitKeys, v \in {None, Text(<<"z">>)}}
    \cup {<<Item(p[1], v1), Item(p[2], v2)>> :
            p \in {q \in ImplicitKeys \X ImplicitKeys : q[1] # q[2]},
            v1 \in {None, Text(<<"z">>)}, v2 \in {None, Text(<<"z">>)}}

ImplicitInit ==
    \E text \in TextsOver(ImplicitSymbols, MaxLen + 1),
       decl \in ImplicitDeclLists,
       app_variables \in ImplicitMappings, automated \in BOOLEAN :
        resolver =
            [pc |-> "hex",
             bundle |-> Bundle(text, decl),
             supplied |-> app_variables,
             automated |-> automated,
             raw_app_data |-> Bundle(text, decl),
             matches |-> MatchesInRaw(Bundle(text, decl)),
             app_variables |-> app_variables,
             variables |-> <<>>,
             i |-> 0,
             message |-> ""]

ImplicitSpecInit ==
    /\ ImplicitInit
    /\ DIdle
    /\ RIdle
    /\ deleter = <<>>
    /\ combined = <<>>
    /\ updater = <<>>
    /\ request = <<>>
    /\ waiter = <<>>
    /\ deploy = <<>>
    /\ checked = <<>>

ImplicitNext ==
    \/ UpdateAndLoad
    \/ ResolveVariable
    \/ VariablesDone
    \/ SubstituteVariable
    \/ ReturnResolved

ImplicitSpec == ImplicitSpecInit /\ [][ImplicitNext]_vars

\* C22: after the update of app_variables the values held for $$cap_appname
\* and $$cap_root_domain are the app name and the root domain, whatever the
\* caller supplied under those ids; and (when no substituted value names a
\* variable) the returned text is the bundle text with every occurrence of
\* the two ids, in the services text and in the variables section, replaced
\* by them, so that neither id occurs in it.
C22_ImplicitVariables ==
    /\ resolver.pc \in {"variables", "items", "returned"} =>
           /\ Get(resolver.app_variables, APPNAME) = Text(CapAppName)
           /\ Get(resolver.app_variables, ROOT_DOMAIN) = Text(RootDomain)
    /\ resolver.pc = "returned" /\ PlainValues(resolver.app_variables) =>
           /\ ReadsRaw(resolver.bundle, resolver.raw_app_data,
                       [SigmaOf(resolver.app_variables) EXCEPT
                           ![APPNAME] = ResolvedTo(CapAppName),
                           ![ROOT_DOMAIN] = ResolvedTo(RootDomain)])
           /\ SymbolsOfRaw(resolver.raw_app_data)
                  \cap {APPNAME, ROOT_DOMAIN} = {}

C22_Witness ==
    /\ resolver.pc = "returned"
    /\ resolver.supplied = <<Item(APPNAME, Text(<<"z">>))>>
    /\ resolver.bundle.text = <<APPNAME, ROOT_DOMAIN>>
    /\ resolver.raw_app_data.text = CapAppName \o RootDomain

(***************************************************************************)
(* update_app                                                              *)
(*                                                                         *)
(* One call reads the app from the platform, edits that dict with the      *)
(* arguments and posts it back.  A dict is a record whose fields hold <<>> *)
(* for a key that is absent (an argument that is None) and <<v>> for the   *)
(* value v; strings that the code splits are sequences of characters.      *)
(***************************************************************************)
NoneArg == <<>>
Given(v) == <<v>>
\* bool(x) of an optional dict or list: the empty dict and the empty list
\* are both the empty function <<>>
Truthy(x) == x # NoneArg /\ x[1] # <<>>

RECURSIVE Split(_)
\* s.split(':')
Split(s) ==
    IF \A i \in 1..Len(s) : s[i] # ":"
    THEN <<s>>
    ELSE LET i == CHOOSE j \in 1..Len(s) :
                      s[j] = ":" /\ \A k \in 1..(j - 1) : s[k] # ":"
         IN <<SubSeq(s, 1, i - 1)>> \o Split(SubSeq(s, i + 1, Len(s)))

\* volume_name.startswith("/")
StartsWithAnything(s) == Len(s) > 0
StartsWith(s) == Len(s) > 0 /\ s[1] = "/"

RECURSIVE UpdateAll(_, _)
\* d.update(e), and the dict comprehension that builds a dict from a list
\* of items: the later value of a key replaces the earlier one in place
UpdateAll(d, e) ==
    IF e = <<>> THEN d
    ELSE UpdateAll(Set(d, e[1].key, e[1].value), Tail(e))

\* current_env_vars_as_dict after the optional update, as the list of
\* {"key": k, "value": v} built from its items
current_environment_variables_win(current_env_vars, environment_variables) ==
    LET current_env_vars_as_dict == UpdateAll(<<>>, current_env_vars)
    IN IF Truthy(environment_variables)
       THEN UpdateAll(environment_variables[1], current_env_vars_as_dict)
       ELSE current_env_vars_as_dict
updated_environment_variables(current_env_vars, environment_variables) ==
    LET current_env_vars_as_dict == UpdateAll(<<>>, current_env_vars)
    IN IF Truthy(environment_variables)
       THEN UpdateAll(current_env_vars_as_dict, environment_variables[1])
       ELSE current_env_vars_as_dict

\* the unpacking volume_name, container_path = volume_pair.split(':')
\* raises ValueError unless there are exactly two parts
Unpacks(persistent_directories) ==
    \A i \in 1..Len(persistent_directories) :
        Len(Split(persistent_directories[i])) = 2

updated_volumes(persistent_directories) ==
    [i \in 1..Len(persistent_directories) |->
        LET volume_name == Split(persistent_directories[i])[1]
            container_path == Split(persistent_directories[i])[2]
        IN IF StartsWith(volume_name)
           THEN [hostPath |-> volume_name, containerPath |-> container_path]
           ELSE [volumeName |-> volume_name,
                 containerPath |-> container_path]]

\* the value of ports: None unless port_mapping is a non-empty list
ports(port_mapping) ==
    IF Truthy(port_mapping)
    THEN Given([i \in 1..Len(port_mapping[1]) |->
                   [hostPort |-> Split(port_mapping[1][i])[1],
                    containerPort |-> Split(port_mapping[1][i])[2]]])
    ELSE NoneArg

\* the dict _data
Data(app_name, args) ==
    [appName |-> Given(app_name),
     notExposeAsWebApp |->
         IF args.expose_as_web_app = NoneArg THEN NoneArg
         ELSE Given(~args.expose_as_web_app[1]),
     ports |-> ports(args.port_mapping),
     volumes |->
         IF args.persistent_directories = NoneArg THEN NoneArg
         ELSE Given(updated_volumes(args.persistent_directories[1])),
     appPushWebhook |-> args.app_push_webhook,
     httpAuth |-> args.http_auth]

\* for k, v in _data.items(): skip None, else current_app_info[k] = v
Overwrite(current_app_info, _data) ==
    [k \in DOMAIN current_app_info \cup DOMAIN _data |->
        IF k \in DOMAIN _data /\ _data[k] # NoneArg
        THEN _data[k]
        ELSE current_app_info[k]]

\* current_app_info["appPushWebhook"]["repoInfo"] = repo_info
WithRepoInfo(webhook, repo_info) ==
    [k \in DOMAIN webhook \cup {"repoInfo"} |->
        IF k = "repoInfo" THEN repo_info ELSE webhook[k]]

\* current_app_info.update(kwargs)
WithKwargs(current_app_info, kwargs) ==
    [k \in DOMAIN current_app_info \cup DOMAIN kwargs |->
        IF k \in DOMAIN kwargs THEN kwargs[k] ELSE current_app_info[k]]

\* current_app_info as json.dumps receives it
Payload(app, args) ==
    LET webhook == IF Truthy(app.appPushWebhook)
                   THEN app.appPushWebhook[1] ELSE <<>>
        with_repo == IF Truthy(args.repo_info)
                     THEN WithRepoInfo(webhook, args.repo_info[1])
                     ELSE webhook
        merged == [app EXCEPT
                      !.appPushWebhook = Given(with_repo),
                      !.envVars =
                          Given(updated_environment_variables(
                                    app.envVars[1],
                                    args.environment_variables))]
    IN WithKwargs(Overwrite(merged, Data(app.appName[1], args)), args.kwargs)

\* the apps the platform holds before the first call: envVars and volumes
\* are always listed, appPushWebhook and httpAuth only once they are set
ExistingEnvVars == {<<>>, <<Item("A", "old"), Item("B", "old")>>}
OldVolumes == <<[hostPath |-> <<"/", "o">>, containerPath |-> <<"/", "c">>]>>
OldPorts == <<[hostPort |-> <<"7">>, containerPort |-> <<"7">>]>>
Apps ==
    {[appName |-> Given("test_app"),
      redirectDomain |-> Given(""),
      envVars |-> Given(e),
      volumes |-> Given(OldVolumes),
      ports |-> Given(OldPorts),
      notExposeAsWebApp |-> Given(FALSE),
      appPushWebhook |-> NoneArg,
      httpAuth |-> NoneArg] : e \in ExistingEnvVars}

HostPair == <<"/", "h", ":", "/", "c">>
NamedPair == <<"v", ":", "/", "c">>
ReadOnlyPair == <<"v", ":", "/", "c", ":", "r", "o">>
PortPair == <<"8", ":", "9">>
NoArgs ==
    [environment_variables |-> NoneArg, persistent_directories |-> NoneArg,
     port_mapping |-> NoneArg, http_auth |-> NoneArg,
     expose_as_web_app |-> NoneArg, app_push_webhook |-> NoneArg,
     repo_info |-> NoneArg, kwargs |-> <<>>]
EnvArgs == {Given(<<Item("A", "new")>>),
            Given(<<Item("B", "new"), Item("A", "new")>>)}
VolumeArgs == {Given(<<>>), Given(<<NamedPair, HostPair>>),
               Given(<<ReadOnlyPair>>)}
PortArgs == {Given(<<>>), Given(<<PortPair>>)}
HttpAuth == [user |-> "admin", password |-> "example"]
Webhook == [pushWebhookToken |-> "t"]
RepoInfo == [repo |-> "r"]
\* the calls explored: no argument besides the app name, one argument, or
\* one of two pairs of arguments
UpdateArgs ==
    {NoArgs}
    \cup {[NoArgs EXCEPT !.environment_variables = v] : v \in EnvArgs}
    \cup {[NoArgs EXCEPT !.persistent_directories = v] : v \in VolumeArgs}
    \cup {[NoArgs EXCEPT !.port_mapping = v] : v \in PortArgs}
    \cup {[NoArgs EXCEPT !.http_auth = Given(HttpAuth)]}
    \cup {[NoArgs EXCEPT !.expose_as_web_app = Given(b)] : b \in BOOLEAN}
    \cup {[NoArgs EXCEPT !.app_push_webhook = Given(Webhook)]}
    \cup {[NoArgs EXCEPT !.repo_info = Given(RepoInfo)]}
    \cup {[NoArgs EXCEPT !.kwargs = [redirectDomain |-> Given("new")]]}
    \cup {[NoArgs EXCEPT !.repo_info = Given(RepoInfo),
                         !.app_push_webhook = Given(Webhook)]}
    \cup {[NoArgs EXCEPT !.environment_variables = v,
                         !.persistent_directories = Given(<<>>)] :
             v \in EnvArgs}

Keys(envVars) == {envVars[i].key : i \in 1..Len(envVars)}

UpdateInit ==
    \E app \in Apps :
        updater = [pc |-> "idle", app |-> app, current |-> app,
                   args |-> NoArgs, payload |-> NoneArg,
                   seen |-> Keys(app.envVars[1])]

\* update_app is called: get_app returns the app the platform holds
UpdateEnter(args) ==
    /\ updater.pc = "idle"
    /\ updater' = [updater EXCEPT
           !.pc = "called", !.current = updater.app, !.args = args]
    /\ UNCHANGED <<dvars, rvars, waiter, deploy, checked, resolver, request, deleter, combined>>

\* the payload is posted and the platform saves it
UpdateAppSaved ==
    /\ updater.pc = "called"
    /\ updater.args.persistent_directories # NoneArg =>
           Unpacks(updater.args.persistent_directories[1])
    /\ LET payload == Payload(updater.current, updater.args)
       IN updater' = [updater EXCEPT
              !.pc = "saved",
              !.app = payload,
              !.payload = Given(payload),
              !.seen = updater.seen \cup Keys(payload.envVars[1])]
    /\ UNCHANGED <<dvars, rvars, waiter, deploy, checked, resolver, request, deleter, combined>>

\* the payload is posted and the platform answers with an error, which
\* _check_errors raises
UpdateAppRefused ==
    /\ updater.pc = "called"
    /\ updater.args.persistent_directories # NoneArg =>
           Unpacks(updater.args.persistent_directories[1])
    /\ updater' = [updater EXCEPT
           !.pc = "refused",
           !.payload = Given(Payload(updater.current, updater.args))]
    /\ UNCHANGED <<dvars, rvars, waiter, deploy, checked, resolver, request, deleter, combined>>

\* the unpacking of a volume pair raises ValueError before anything is posted
UpdateAppValueError ==
    /\ updater.pc = "called"
    /\ updater.args.persistent_directories # NoneArg
    /\ ~Unpacks(updater.args.persistent_directories[1])
    /\ updater' = [updater EXCEPT !.pc = "raised"]
    /\ UNCHANGED <<dvars, rvars, waiter, deploy, checked, resolver, request, deleter, combined>>

\* the call is over and its locals are gone
UpdateLeave ==
    /\ updater.pc \in {"saved", "refused", "raised"}
    /\ updater' = [updater EXCEPT
           !.pc = "idle", !.current = updater.app, !.args = NoArgs,
           !.payload = NoneArg]
    /\ UNCHANGED <<dvars, rvars, waiter, deploy, checked, resolver, request, deleter, combined>>

UpdateNext ==
    \/ \E args \in UpdateArgs : UpdateEnter(args)
    \/ UpdateAppSaved
    \/ UpdateAppRefused
    \/ UpdateAppValueError
    \/ UpdateLeave

UpdateSpecInit ==
    /\ UpdateInit
    /\ DIdle
    /\ RIdle
    /\ deleter = <<>>
    /\ combined = <<>>
    /\ waiter = <<>>
    /\ deploy = <<>>
    /\ checked = <<>>
    /\ resolver = <<>>
    /\ request = <<>>

UpdateSpec == UpdateSpecInit /\ [][UpdateNext]_vars

(***************************************************************************)
(* create_app and deploy_app with the wait in detail                       *)
(*                                                                         *)
(* One top-level call of create_app or of deploy_app: the wrapper's        *)
(* counter, the request it posts, the response, and the call of            *)
(* _wait_until_app_ready made by its body, which runs as the waiter above. *)
(* create_app posts, waits (when wait_for_app_build) and then checks the   *)
(* response; deploy_app posts, checks the response, waits and then checks  *)
(* the build.  The responses are answered requests; the connection         *)
(* failures of the post are PostTrigger's.                                 *)
(***************************************************************************)
OkBody ==
    [readable |-> TRUE, status |-> STATUS_OK, has_description |-> TRUE,
     description |-> "Done"]
AnsweredOk == [status_code |-> 200, body |-> OkBody]
AnsweredTooManyRequests ==
    [status_code |-> HTTP_TOO_MANY_REQUESTS, body |-> NoBody]
AnsweredAlreadyExists ==
    [status_code |-> 200,
     body |-> [OkBody EXCEPT !.status = STATUS_ERROR_ALREADY_EXIST,
                             !.description = "App already exists"]]
Answers == {AnsweredOk, AnsweredTooManyRequests, AnsweredAlreadyExists}
NoResponse == [status_code |-> 0, body |-> NoBody]

\* what _check_errors(response) raises, "none" when it returns
CheckErrors(response) ==
    IF RateLimited(response) THEN "TooManyRequestsError"
    ELSE IF ~response.body.readable THEN "JSONDecodeError"
    ELSE IF StatusNotOk(response.body) THEN "Exception"
    ELSE "none"

RequestIdle ==
    [op |-> "create_app", wait_for_app_build |-> TRUE, pc |-> "idle",
     c |-> NewCounter(1), posts |-> 0, response |-> NoResponse,
     polled |-> FALSE, examined |-> FALSE, last |-> "none",
     exc |-> "none", cause |-> "none"]
\* posts counts the requests posted in the call; polled and examined tell
\* whether the current run of the body has called the wait and
\* _check_errors(response); last is what made the wrapper retry last, and
\* exc and cause what the call raised

\* the wrapper of create_app (with or without wait_for_app_build) or of
\* deploy_app is entered
RequestInit ==
    /\ \E op \in {"create_app", "deploy_app"}, wait \in BOOLEAN :
           /\ op = "deploy_app" => wait
           /\ request = [RequestIdle EXCEPT
                  !.op = op, !.wait_for_app_build = wait, !.pc = "post"]
    /\ waiter = WaiterIdle

\* the step after the post, after the check of the response and after the
\* wait (variant: create_app checks the response before it waits)
AfterPostCheckingFirst(r) == "check"
AfterPost(r) ==
    IF r.op = "create_app" /\ r.wait_for_app_build THEN "wait" ELSE "check"
AfterCheck(r) ==
    IF r.op = "create_app" THEN "returned" ELSE "wait"
AfterWait(r) ==
    IF r.op = "create_app" THEN "check" ELSE "ensure"

\* an exception e leaves the body and meets the wrapper of create_app or
\* deploy_app: a retry runs the whole body again, which posts again
RequestBodyRaises(e, cause) ==
    IF Retries(request.c, e)
    THEN request' = [request EXCEPT
             !.pc = "post", !.c = Counted(request.c, e),
             !.response = NoResponse, !.polled = FALSE, !.examined = FALSE,
             !.last = cause]
    ELSE request' = [request EXCEPT
             !.pc = "raised", !.exc = e, !.cause = cause,
             !.examined = request.examined \/ cause = "response"]

\* response = self.session.post(...)
PostRequest(response) ==
    /\ request.pc = "post"
    /\ request' = [request EXCEPT
           !.posts = @ + 1, !.response = response, !.pc = AfterPost(request)]
    /\ UNCHANGED <<dvars, rvars, waiter, deploy, checked, resolver, updater, deleter, combined>>

\* _check_errors(response)
CheckResponse ==
    /\ request.pc = "check"
    /\ IF CheckErrors(request.response) = "none"
       THEN request' = [request EXCEPT !.examined = TRUE,
                                       !.pc = AfterCheck(request)]
       ELSE RequestBodyRaises(CheckErrors(request.response), "response")
    /\ UNCHANGED <<dvars, rvars, waiter, deploy, checked, resolver, updater, deleter, combined>>

\* self._wait_until_app_ready(app_name=app_name) is called
WaitCalled ==
    /\ request.pc = "wait"
    /\ waiter.pc = "idle"
    /\ waiter' = [WaiterIdle EXCEPT !.pc = "while", !.timeout = TickBudget]
    /\ request' = [request EXCEPT !.polled = TRUE]
    /\ UNCHANGED <<dvars, rvars, deploy, checked, resolver, updater, deleter, combined>>

\* it returned the app info
WaitReturned ==
    /\ request.pc = "wait"
    /\ waiter.pc = "returned"
    /\ waiter' = WaiterIdle
    /\ request' = [request EXCEPT !.pc = AfterWait(request)]
    /\ UNCHANGED <<dvars, rvars, deploy, checked, resolver, updater, deleter, combined>>

\* it raised: the body of create_app or deploy_app has no handler
WaitRaised ==
    /\ request.pc = "wait"
    /\ waiter.pc = "raised"
    /\ waiter' = WaiterIdle
    /\ RequestBodyRaises(waiter.exc, "wait")
    /\ UNCHANGED <<dvars, rvars, deploy, checked, resolver, updater, deleter, combined>>

\* deploy_app: time.sleep(0.50); self._ensure_app_build_success(...);
\* return response.json().  The get_app_info call of
\* _ensure_app_build_success is taken by its outcome: it returns app info
\* with isBuildFailed unset or set, or it raises TooManyRequestsError once
\* its own retries are used up, or Exception for a status that is not ok.
\* Whatever is raised leaves the body of deploy_app.
EnsureOutcomes == {"succeeded", "build_failed", "429", "bad_status"}
EnsureBuild(outcome) ==
    /\ request.pc = "ensure"
    /\ CASE outcome = "succeeded" ->
               request' = [request EXCEPT !.pc = "returned"]
         [] outcome = "build_failed" ->
               RequestBodyRaises(BuildError, "build_failed")
         [] outcome = "429" ->
               RequestBodyRaises("TooManyRequestsError", "fetch")
         [] outcome = "bad_status" ->
               RequestBodyRaises("Exception", "status")
    /\ UNCHANGED <<dvars, rvars, waiter, deploy, checked, resolver, updater, deleter, combined>>

NestedNext ==
    \/ \E response \in Answers : PostRequest(response)
    \/ CheckResponse
    \/ WaitCalled
    \/ WaitReturned
    \/ WaitRaised
    \/ \E outcome \in EnsureOutcomes : EnsureBuild(outcome)
    \/ Tick
    \/ TimeoutReached
    \/ \E outcome \in {"building", "not_building"} : FetchReturns(outcome)
    \/ FetchTransient("429")
    \/ FetchBadStatus
    \/ ReturnAppInfo
    \/ StillBuilding

NestedSpecInit ==
    /\ RequestInit
    /\ DIdle
    /\ RIdle
    /\ deleter = <<>>
    /\ combined = <<>>
    /\ deploy = <<>>
    /\ checked = <<>>
    /\ resolver = <<>>
    /\ updater = <<>>

NestedSpec == NestedSpecInit /\ [][NestedNext]_vars

(***************************************************************************)
(* Properties of the nested retries                                        *)
(***************************************************************************)
Retried(counter) ==
    counter["TooManyRequestsError"] + counter["ConnectionError"]

\* C29: the budgets nest.  A status fetch whose error get_app_info no
\* longer retries starts the body of the wait again, counted by the wait's
\* own counter, with 60 ticks and a new counter for get_app_info; a
\* transient error leaves the wait only when the wait's budget is used up,
\* and then the wrapper of create_app or deploy_app counts it and runs its
\* body again, which posts the register or trigger request again; so does
\* a transient error of the status fetch that follows the wait in
\* deploy_app: the requests posted are one per run of the body.
C29_BudgetsNest ==
    /\ [](/\ request.posts \in {Retried(request.c), Retried(request.c) + 1}
          /\ request.pc \notin {"post", "idle"} =>
                 request.posts = Retried(request.c) + 1
          /\ waiter.pc = "raised" /\ waiter.exc \in TransientErrors =>
                 /\ ~Retries(waiter.w, waiter.exc)
                 /\ waiter.w[waiter.exc] = TooManyTimes)
    /\ [][/\ waiter.pc = "fetch" /\ waiter'.pc = "while" =>
                 /\ ~Retries(waiter.g, "TooManyRequestsError")
                 /\ waiter'.w = Counted(waiter.w, "TooManyRequestsError")
                 /\ waiter'.timeout = TickBudget
                 /\ waiter'.polls = 0
                 /\ waiter'.g = NewCounter(1)
          /\ (/\ request.pc = "wait"
              /\ waiter.pc = "raised"
              /\ Retries(request.c, waiter.exc)) =>
                 /\ request'.pc = "post"
                 /\ request'.c = Counted(request.c, waiter.exc)
          /\ request.pc = "ensure" /\ request'.pc = "post" =>
                 /\ Retries(request.c, "TooManyRequestsError")
                 /\ request'.c = Counted(request.c, "TooManyRequestsError")
          /\ request.pc = "post" =>
                 request'.posts = request.posts + 1]_vars

C29_Witness ==
    /\ request.op = "deploy_app"
    /\ request.posts = 2
    /\ request.last = "wait"
    /\ request.pc = "wait"
    /\ waiter.w["TooManyRequestsError"] = 1
    /\ waiter.polls = TickBudget

\* C30: create_app with wait_for_app_build checks the response of the
\* register request only after the wait was called and has returned,
\* whatever the response is; when the wait raises, the response has not
\* been checked in that run of the body, and what create_app raises or
\* retries is the error of the wait, not the one of the response.
C30_ResponseCheckedAfterWait ==
    request.op = "create_app" /\ request.wait_for_app_build =>
        /\ request.pc = "check" => request.polled /\ waiter.pc = "idle"
        /\ request.examined => request.polled
        /\ request.pc = "raised" /\ request.cause = "wait" =>
               /\ request.polled
               /\ ~request.examined
               /\ request.exc \notin TransientErrors \/
                      ~Retries(request.c, request.exc)
        /\ request.last = "none" =>
               request.c = NewCounter(1) /\ request.posts <= 1

C30_Witness ==
    /\ request.op = "create_app"
    /\ request.wait_for_app_build
    /\ request.pc = "raised"
    /\ request.cause = "wait"
    /\ request.response = AnsweredTooManyRequests
    /\ request.exc = "Exception"
    /\ request.posts = 1
    /\ request.c = NewCounter(1)

(***************************************************************************)
(* Properties of update_app                                                *)
(***************************************************************************)
Posted == updater.pc \in {"saved", "refused"}
ValueAt(envVars, k) == envVars[CHOOSE i \in 1..Len(envVars) : envVars[i].key = k].value
CallerEnvVars ==
    IF updater.args.environment_variables = NoneArg THEN <<>>
    ELSE updater.args.environment_variables[1]

\* C23: the envVars of a posted payload are the existing variables with the
\* caller's merged in: every existing key is kept, with its existing value
\* unless the caller names it; the caller's keys carry the caller's values;
\* there is no other key and every key occurs once.  Over any sequence of
\* calls no key the app ever had is missing from the app.
C23_EnvVarsMerged ==
    /\ Posted =>
           LET existing == updater.current.envVars[1]
               posted == updater.payload[1].envVars[1]
           IN /\ Keys(posted) = Keys(existing) \cup Keys(CallerEnvVars)
              /\ Cardinality(Keys(posted)) = Len(posted)
              /\ \A k \in Keys(CallerEnvVars) :
                     ValueAt(posted, k) = ValueAt(CallerEnvVars, k)
              /\ \A k \in Keys(existing) \ Keys(CallerEnvVars) :
                     ValueAt(posted, k) = ValueAt(existing, k)
    /\ updater.seen \subseteq Keys(updater.app.envVars[1])

C23_Witness ==
    /\ updater.pc = "saved"
    /\ updater.current.envVars[1] = <<Item("A", "old"), Item("B", "old")>>
    /\ CallerEnvVars = <<Item("A", "new")>>
    /\ updater.app.envVars[1] = <<Item("A", "new"), Item("B", "old")>>

\* C24: in a posted payload a field whose argument is None is as get_app
\* returned it, and a field whose argument is not None holds the given
\* value: volumes and persistent_directories, httpAuth and http_auth, ports
\* and port_mapping, notExposeAsWebApp and expose_as_web_app,
\* appPushWebhook and app_push_webhook (with repo_info; an app without a
\* webhook is posted with an empty one).
C24_OnlyPassedFieldsChange ==
    Posted =>
        LET args == updater.args
            current == updater.current
            posted == updater.payload[1]
        IN /\ args.persistent_directories = NoneArg =>
                  posted.volumes = current.volumes
           /\ posted.httpAuth =
                  IF args.http_auth = NoneArg THEN current.httpAuth
                  ELSE args.http_auth
           /\ args.expose_as_web_app = NoneArg =>
                  posted.notExposeAsWebApp = current.notExposeAsWebApp
           /\ args.expose_as_web_app # NoneArg =>
                  posted.notExposeAsWebApp # args.expose_as_web_app
           /\ args.port_mapping = NoneArg => posted.ports = current.ports
           /\ args.port_mapping # NoneArg =>
                  Len(posted.ports[1]) = Len(args.port_mapping[1])
           /\ args.app_push_webhook # NoneArg =>
                  posted.appPushWebhook = args.app_push_webhook
           /\ (/\ args.app_push_webhook = NoneArg
               /\ args.repo_info = NoneArg
               /\ Truthy(current.appPushWebhook)) =>
                  posted.appPushWebhook = current.appPushWebhook

\* C25: when persistent_directories is a list of pairs <left>:<right>, the
\* posted volumes are one entry per item, in order: a hostPath entry when
\* the left side starts with "/", a volumeName entry otherwise, each with
\* the right side as containerPath; the empty list posts no volume, and the
\* saved app holds exactly these volumes.
C25_VolumesReplaced ==
    Posted /\ updater.args.persistent_directories # NoneArg =>
        LET pairs == updater.args.persistent_directories[1]
            volumes == updater.payload[1].volumes[1]
        IN /\ Len(volumes) = Len(pairs)
           /\ \A i \in 1..Len(pairs) :
                  IF pairs[i][1] = "/"
                  THEN /\ DOMAIN volumes[i] = {"hostPath", "containerPath"}
                       /\ volumes[i].hostPath \o <<":">>
                              \o volumes[i].containerPath = pairs[i]
                  ELSE /\ DOMAIN volumes[i] = {"volumeName", "containerPath"}
                       /\ volumes[i].volumeName \o <<":">>
                              \o volumes[i].containerPath = pairs[i]
           /\ updater.pc = "saved" => updater.app.volumes = Given(volumes)

C25_Witness ==
    /\ updater.pc = "saved"
    /\ updater.args.persistent_directories = Given(<<NamedPair, HostPair>>)
    /\ updater.current.volumes = Given(OldVolumes)
    /\ updater.app.volumes =
           Given(<<[volumeName |-> <<"v">>, containerPath |-> <<"/", "c">>],
                   [hostPath |-> <<"/", "h">>,
                    containerPath |-> <<"/", "c">>]>>)

(***************************************************************************)
(* Properties of the order of the rollouts                                 *)
(***************************************************************************)
\* the calls of one service are next to each other in the log
Contiguous ==
    \A i, k \in 1..Len(log) :
        i < k /\ log[i].app = log[k].app =>
            \A j \in i..k : log[j].app = log[i].app

\* C26: every call is issued for the service at the position of the for
\* loop; the position only moves forward by one, or back to the first
\* service when a new pass starts, and it does not move while a rollout is
\* between two of its calls; so the calls of one service are never mixed
\* with the calls of another.
C26_OneServiceAtATime ==
    /\ []Contiguous
    /\ [][/\ log' # log =>
                 /\ idx \in 1..Len(services)
                 /\ Len(log') = Len(log) + 1
                 /\ SubSeq(log', 1, Len(log)) = log
                 /\ log'[Len(log')].app = services[idx]
          /\ idx' # idx =>
                 \/ idx' = idx + 1
                 \/ pc = "while" /\ idx' = 1
          /\ pc = "update_app" => idx' = idx
          /\ pc = "deploy_app" /\ log' = log => idx' = idx]_vars

C26_Witness ==
    /\ \A s \in Range(services) : depends_on[s] = {}
    /\ passes = 0
    /\ pc = "for"
    /\ apps_deployed = <<1, 2>>
    /\ Len(log) = 6

\* the three calls of a finished rollout of s, next to each other in the log
RolledOut(s) ==
    \E i \in 1..Len(log) :
        /\ i + 2 <= Len(log)
        /\ log[i] = Entry("create_app", s, TRUE)
        /\ log[i + 1] = Entry("update_app", s, TRUE)
        /\ log[i + 2] = Entry("deploy_app", s, TRUE)

StepsInOrder ==
    /\ pc = "update_app" =>
           /\ Len(log) >= 1
           /\ log[Len(log)] = Entry("create_app", services[idx], TRUE)
    /\ pc = "deploy_app" =>
           /\ Len(log) >= 2
           /\ log[Len(log) - 1] = Entry("create_app", services[idx], TRUE)
           /\ log[Len(log)] = Entry("update_app", services[idx], TRUE)
    /\ deploy.pc \in {"post", "wait", "ensure"} => pc = "deploy_app"
    /\ deploy.pc \in {"wait", "ensure"} => deploy.triggers >= 1
    /\ \A s \in Range(apps_deployed) : RolledOut(s)

\* C27: a rollout configures the app only after create_app returned, and
\* triggers the deploy only after update_app returned; the wait starts only
\* when the trigger request was answered ok, the build-success check only
\* when the wait returned, and the service is appended to apps_deployed
\* only by the step in which the build-success check passes.
C27_RolloutStepsInOrder ==
    /\ []StepsInOrder
    /\ [][/\ deploy'.pc = "wait" /\ deploy.pc # "wait" =>
                 /\ deploy.pc = "post"
                 /\ deploy'.triggers = deploy.triggers + 1
          /\ deploy'.pc = "ensure" /\ deploy.pc # "ensure" =>
                 deploy.pc = "wait"
          /\ apps_deployed' # apps_deployed =>
                 /\ deploy.pc = "ensure"
                 /\ apps_deployed' = Append(apps_deployed, services[idx])
                 /\ log' = Append(log, Entry("deploy_app", services[idx],
                                             TRUE))]_vars

C27_Witness ==
    /\ status = "returned"
    /\ depends_on[1] = {2}
    /\ apps_deployed = <<2, 1>>
    /\ RolledOut(1)

\* C28: at every point apps_deployed has no duplicates, holds only names of
\* services of the bundle and holds, with every service, all names in its
\* depends_on; and the method has returned only if the set of apps_deployed
\* is the set of all service names.
C28_DeployedListInvariant ==
    /\ Cardinality(Range(apps_deployed)) = Len(apps_deployed)
    /\ Range(apps_deployed) \subseteq Range(services)
    /\ \A s \in Range(apps_deployed) :
           depends_on[s] \subseteq Range(apps_deployed)
    /\ status = "returned" => Range(apps_deployed) = Range(services)

C28_Witness ==
    /\ Len(services) = 3
    /\ status = "returned"
    /\ depends_on[1] = {2}
    /\ depends_on[2] = {3}
    /\ apps_deployed = <<3, 2, 1>>

(***************************************************************************)
(* The rollout with the response to the deploy trigger in detail           *)
(*                                                                         *)
(* deploy_one_click_app as in DeploySpec, the trigger request of           *)
(* deploy_app being answered by a response that _check_errors examines;    *)
(* checked holds the last response examined and what the check raised.     *)
(***************************************************************************)
TriggerAnswers == {r \in Responses : RateLimited(r) \/ r.body.readable}

PostTriggerAnswered(response) ==
    /\ pc = "deploy_app"
    /\ deploy.pc = "post"
    /\ checked' = [response |-> response, exc |-> CheckErrors(response)]
    /\ LET sent == [deploy EXCEPT !.triggers = @ + 1]
           e == CheckErrors(response)
       IN  IF e = "none"
           THEN /\ deploy' = [sent EXCEPT !.pc = "wait"]
                /\ UNCHANGED <<log, status, error, pc, idx>>
           ELSE IF Retries(deploy.d, e)
           THEN /\ deploy' = [sent EXCEPT !.d = Counted(deploy.d, e),
                                          !.cause = "trigger"]
                /\ UNCHANGED <<log, status, error, pc, idx>>
           ELSE /\ deploy' = [sent EXCEPT
                       !.pc = "raised", !.exc = e,
                       !.cause = IF e \in TransientErrors THEN "trigger"
                                                          ELSE "status"]
                /\ log' = Append(log, Entry("deploy_app", services[idx],
                                            FALSE))
                /\ Propagate(e)
    /\ UNCHANGED <<rvars, waiter, resolver, services, depends_on,
                   apps_deployed, result, passes, updater, request, deleter, combined>>

AnsweredNext ==
    \/ WhileEnter
    \/ Return
    \/ ForExhausted
    \/ SkipDeployed
    \/ SkipBlocked
    \/ CreateAppOk
    \/ CreateAppRaises
    \/ UpdateAppOk
    \/ UpdateAppRaises
    \/ DeployEnter
    \/ \E response \in TriggerAnswers : PostTriggerAnswered(response)
    \/ WaitReturns
    \/ \E e \in ExcClasses, cause \in RaiseCauses : WaitRaises(e, cause)
    \/ EnsureBuildSucceeded
    \/ \E e \in ExcClasses, cause \in RaiseCauses : EnsureRaises(e, cause)

AnsweredSpecInit ==
    /\ DeployInit
    /\ RIdle
    /\ deleter = <<>>
    /\ combined = <<>>
    /\ waiter = <<>>
    /\ checked = <<>>
    /\ resolver = <<>>
    /\ updater = <<>>
    /\ request = <<>>

AnsweredSpec == AnsweredSpecInit /\ [][AnsweredNext]_vars

\* C31: the check of a response returns exactly when the response is not a
\* 429 and its body status is STATUS_OK or STATUS_OK_PARTIALLY.  For every
\* other body status, STATUS_OK_DEPLOY_STARTED included, it raises
\* Exception, which no wrapper retries: deploy_app has raised it with no
\* retry counted for it, deploy_one_click_app has ended with it, the service
\* is not in apps_deployed and nothing more runs.
C31_OnlyOkAndPartiallyPass ==
    checked # <<>> =>
        LET response == checked.response
            passes_check ==
                /\ response.status_code # HTTP_TOO_MANY_REQUESTS
                /\ response.body.status \in {STATUS_OK, STATUS_OK_PARTIALLY}
        IN /\ checked.exc = "none" <=> passes_check
           /\ (~passes_check
               /\ response.status_code # HTTP_TOO_MANY_REQUESTS) =>
                  /\ checked.exc = "Exception"
                  /\ ~Retries(NewCounter(1), "Exception")
                  /\ deploy.pc = "raised"
                  /\ deploy.exc = "Exception"
                  /\ deploy.d["Exception"] = 0
                  /\ status = "raised"
                  /\ error = "Exception"
                  /\ log[Len(log)] = Entry("deploy_app", services[idx], FALSE)
                  /\ services[idx] \notin Range(apps_deployed)
                  /\ ~ENABLED AnsweredNext

C31_Witness ==
    /\ checked # <<>>
    /\ checked.response.status_code = 200
    /\ checked.response.body.status = STATUS_OK_DEPLOY_STARTED
    /\ status = "raised"
    /\ apps_deployed = <<1>>
    /\ services[idx] = 2

(***************************************************************************)
(* delete_app_matching_pattern                                             *)
(*                                                                         *)
(* deleter holds the locals of one call: the app list, the position of the *)
(* for loop, the confirmation, and as history every answer input()         *)
(* returned and every delete_app call issued, by position in the list.     *)
(***************************************************************************)
AppNames == {<<"b">>, <<"a", "b">>}
AppLists == UNION {[1..n -> AppNames] : n \in 0..MaxApps}

\* a pattern: a literal text, possibly anchored at the start with ^
NamePattern(anchored, text) == [anchored |-> anchored, text |-> text]
NamePatterns ==
    {NamePattern(a, t) : a \in BOOLEAN, t \in {<<>>, <<"b">>}}

\* re.search(app_name_pattern, app_name)
SearchName(app_name_pattern, app_name) ==
    LET n == Len(app_name_pattern.text)
        starts == IF app_name_pattern.anchored THEN {1}
                  ELSE 1..(Len(app_name) + 1)
    IN  \E i \in starts :
           /\ i + n - 1 <= Len(app_name)
           /\ SubSeq(app_name, i, i + n - 1) = app_name_pattern.text

\* what input() can return
Typed == {"y", "n", "Y", "N", "yes"}
Accepted == {"y", "n", "Y", "N"}
NotAsked == "None"

\* confirmation.lower()
\* (variant: the answer is compared as typed)
LowerNothing(answer) == answer
Lower(answer) ==
    IF answer = "Y" THEN "y" ELSE IF answer = "N" THEN "n" ELSE answer

DeleteIdle ==
    [pc |-> "list_apps", app_list |-> <<>>, app_name_pattern |->
        NamePattern(FALSE, <<>>), automated |-> FALSE, i |-> 1,
     confirmation |-> NotAsked, typed |-> <<>>, deleted |-> <<>>,
     exc |-> "none", returned |-> 0]

DeleteInit ==
    \E app_list \in AppLists, app_name_pattern \in NamePatterns,
       automated \in BOOLEAN :
        deleter = [DeleteIdle EXCEPT
            !.app_list = app_list,
            !.app_name_pattern = app_name_pattern,
            !.automated = automated]

\* app_list = self.list_apps()
ListApps(e) ==
    /\ deleter.pc = "list_apps"
    /\ deleter' = IF e = "none" THEN [deleter EXCEPT !.pc = "for"]
                  ELSE [deleter EXCEPT !.pc = "raised", !.exc = e]
    /\ UNCHANGED <<dvars, rvars, waiter, deploy, checked, resolver, updater,
                   request, combined>>

\* one step of "for app in ...": the name is searched; a match goes to the
\* confirmation, or in automated mode to delete_app
ForApp ==
    /\ deleter.pc = "for"
    /\ deleter.i <= Len(deleter.app_list)
    /\ LET app_name == deleter.app_list[deleter.i]
       IN  IF SearchName(deleter.app_name_pattern, app_name)
           THEN IF ~deleter.automated
                THEN deleter' = [deleter EXCEPT
                         !.pc = "while", !.confirmation = NotAsked]
                ELSE deleter' = [deleter EXCEPT !.pc = "delete_app"]
           ELSE deleter' = [deleter EXCEPT !.i = @ + 1]
    /\ UNCHANGED <<dvars, rvars, waiter, deploy, checked, resolver, updater,
                   request, combined>>

\* how many answers to the confirmation for the app at position i were not
\* accepted
Rejected(typed, i) ==
    Cardinality({k \in 1..Len(typed) :
                   typed[k].i = i /\ typed[k].answer \notin Accepted})

\* one turn of "while confirmation not in ['y', 'n', 'Y', 'N']"
AskConfirmation(answer) ==
    /\ deleter.pc = "while"
    /\ deleter.confirmation \notin Accepted
    /\ answer \in Accepted \/ Rejected(deleter.typed, deleter.i) < MaxAsks
    /\ deleter' = [deleter EXCEPT
           !.confirmation = answer,
           !.typed = Append(@, [i |-> deleter.i, answer |-> answer])]
    /\ UNCHANGED <<dvars, rvars, waiter, deploy, checked, resolver, updater,
                   request, combined>>

\* the while loop ends; if confirmation.lower() == 'n': continue
AfterConfirmation ==
    /\ deleter.pc = "while"
    /\ deleter.confirmation \in Accepted
    /\ deleter' = IF Lower(deleter.confirmation) = "n"
                  THEN [deleter EXCEPT !.pc = "for", !.i = @ + 1]
                  ELSE [deleter EXCEPT !.pc = "delete_app"]
    /\ UNCHANGED <<dvars, rvars, waiter, deploy, checked, resolver, updater,
                   request, combined>>

\* self.delete_app(app_name=app['appName'], ...); time.sleep(0.20)
DeleteApp(e) ==
    /\ deleter.pc = "delete_app"
    /\ LET issued == [deleter EXCEPT !.deleted = Append(@, deleter.i)]
       IN  deleter' = IF e = "none"
                      THEN [issued EXCEPT !.pc = "for", !.i = @ + 1]
                      ELSE [issued EXCEPT !.pc = "raised", !.exc = e]
    /\ UNCHANGED <<dvars, rvars, waiter, deploy, checked, resolver, updater,
                   request, combined>>

\* return {"description": ..., "status": STATUS_OK}
DeleteReturn ==
    /\ deleter.pc = "for"
    /\ deleter.i > Len(deleter.app_list)
    /\ deleter' = [deleter EXCEPT !.pc = "returned", !.returned = STATUS_OK]
    /\ UNCHANGED <<dvars, rvars, waiter, deploy, checked, resolver, updater,
                   request, combined>>

DeleteNext ==
    \/ \E e \in {"none", "Exception"} : ListApps(e)
    \/ ForApp
    \/ \E answer \in Typed : AskConfirmation(answer)
    \/ AfterConfirmation
    \/ \E e \in {"none", "Exception"} : DeleteApp(e)
    \/ DeleteReturn

DeleteSpecInit ==
    /\ DeleteInit
    /\ DIdle
    /\ RIdle
    /\ waiter = <<>>
    /\ deploy = <<>>
    /\ checked = <<>>
    /\ resolver = <<>>
    /\ updater = <<>>
    /\ request = <<>>
    /\ combined = <<>>

DeleteSpec == DeleteSpecInit /\ [][DeleteNext]_vars

\* the positions of the app list that the loop is done with
Scanned ==
    {j \in 1..Len(deleter.app_list) :
        j < deleter.i \/ deleter.pc = "returned"}
\* the answers typed for the app at position j, in order
RECURSIVE TypedFor(_, _)
TypedFor(typed, j) ==
    IF typed = <<>> THEN <<>>
    ELSE (IF Head(typed).i = j THEN <<Head(typed).answer>> ELSE <<>>)
         \o TypedFor(Tail(typed), j)
Matching(j) == SearchName(deleter.app_name_pattern, deleter.app_list[j])
Confirmed(j) ==
    /\ TypedFor(deleter.typed, j) # <<>>
    /\ TypedFor(deleter.typed, j)[Len(TypedFor(deleter.typed, j))]
           \in {"y", "Y"}
Declined(j) ==
    /\ TypedFor(deleter.typed, j) # <<>>
    /\ TypedFor(deleter.typed, j)[Len(TypedFor(deleter.typed, j))]
           \in {"n", "N"}

\* C33: delete_app is issued only for apps whose name the pattern matches,
\* each at most once and in list order; in non-automated mode only for apps
\* whose confirmation ended with y or Y.  A confirmation is asked only for
\* matching apps, every answer before the last one is none of y, n, Y, N,
\* and the loop leaves an app only after an accepted answer.  An app
\* answered n or N is never deleted, and the scan goes on: when the function
\* returns, delete_app was issued for exactly the matching apps that were
\* confirmed.  In automated mode nothing is asked and, when the function
\* returns, delete_app was issued for exactly the matching apps.
C33_DeletesOnlyConfirmedMatches ==
    LET app_list == deleter.app_list
        deleted == deleter.deleted
    IN  /\ \A k \in 1..Len(deleted) :
              /\ deleted[k] \in 1..Len(app_list)
              /\ Matching(deleted[k])
              /\ ~deleter.automated => Confirmed(deleted[k])
              /\ \A m \in 1..Len(deleted) : k < m => deleted[k] < deleted[m]
        /\ \A j \in 1..Len(app_list) :
              LET answers == TypedFor(deleter.typed, j)
              IN  /\ answers # <<>> => Matching(j) /\ ~deleter.automated
                  /\ \A k \in 1..(Len(answers) - 1) :
                        answers[k] \notin Accepted
                  /\ (j \in Scanned /\ Matching(j) /\ ~deleter.automated)
                        => Confirmed(j) \/ Declined(j)
                  /\ Declined(j) => j \notin Range(deleted)
        /\ deleter.automated => deleter.typed = <<>>
        /\ deleter.pc = "returned" =>
              /\ deleter.returned = STATUS_OK
              /\ Range(deleted) =
                    {j \in 1..Len(app_list) :
                        Matching(j) /\ (deleter.automated \/ Confirmed(j))}

\* the first app was asked about twice and declined with N, the second was
\* then confirmed and deleted
C33_Witness ==
    /\ deleter.pc = "returned"
    /\ ~deleter.automated
    /\ deleter.app_list = <<<<"b">>, <<"a", "b">>>>
    /\ deleter.app_name_pattern = NamePattern(FALSE, <<"b">>)
    /\ TypedFor(deleter.typed, 1) = <<"yes", "N">>
    /\ TypedFor(deleter.typed, 2) = <<"Y">>
    /\ deleter.deleted = <<2>>

(***************************************************************************)
(* create_and_update_app                                                   *)
(*                                                                         *)
(* combined holds the arguments of one call, the position in the body, the *)
(* local response, and as history the calls issued with the arguments that *)
(* matter here.  Every step returns its own response or raises.            *)
(***************************************************************************)
StepOrder == <<"create_app", "add_domain", "enable_ssl", "update_app",
               "deploy_app">>
Rank(op) == CHOOSE k \in 1..Len(StepOrder) : StepOrder[k] = op

\* **kwargs: the extra keyword arguments, in the order passed
CombinedKwargs ==
    {<<>>,
     <<Item("persistent_directories", <<>>)>>,
     <<Item("persistent_directories", <<"v">>)>>,
     <<Item("environment_variables", <<"e">>)>>}

CombinedArgs ==
    [has_persistent_data : BOOLEAN,
     custom_domain : {NoneArg, Given(<<>>), Given(<<"d">>)},
     enable_ssl : BOOLEAN,
     image_name : {NoneArg, Given(<<>>), Given(<<"i">>)},
     docker_file_lines : {NoneArg, Given(<<>>), Given(<<"l">>)},
     instance_count : {1, 2},
     kwargs : CombinedKwargs]

\* kwargs.get(key)
KwargsGet(kwargs, key) ==
    IF \E k \in 1..Len(kwargs) : kwargs[k].key = key
    THEN Given(kwargs[CHOOSE k \in 1..Len(kwargs) : kwargs[k].key = key].value)
    ELSE NoneArg

\* the response a step returns
ResponseOf(op) == [of |-> op]
NoStepResponse == [of |-> "none"]

CombinedInit ==
    \E args \in CombinedArgs :
        combined = [pc |-> "create_app", args |-> args, issued |-> <<>>,
                    response |-> NoStepResponse, exc |-> "none",
                    returned |-> NoStepResponse]

\* one call of a step: it returns its response, or raises e
CallStep(op, call, e, then) ==
    LET issued == [combined EXCEPT !.issued = Append(@, call)]
    IN  combined' =
            IF e = "none"
            THEN [issued EXCEPT !.response = ResponseOf(op), !.pc = then]
            ELSE [issued EXCEPT !.pc = "raised", !.exc = e]

\* if kwargs.get("persistent_directories"): has_persistent_data = True
\* response = self.create_app(...)
CreateStep(e) ==
    /\ combined.pc = "create_app"
    /\ LET has_persistent_data ==
               IF Truthy(KwargsGet(combined.args.kwargs,
                                   "persistent_directories"))
               THEN TRUE ELSE combined.args.has_persistent_data
       IN  CallStep("create_app",
                    [op |-> "create_app",
                     has_persistent_data |-> has_persistent_data],
                    e, "add_domain")
    /\ UNCHANGED <<dvars, rvars, waiter, deploy, checked, resolver, updater,
                   request, deleter>>

\* if custom_domain: response = self.add_domain(...)
AddDomainStep(e) ==
    /\ combined.pc = "add_domain"
    /\ IF Truthy(combined.args.custom_domain)
       THEN CallStep("add_domain",
                     [op |-> "add_domain",
                      custom_domain |-> combined.args.custom_domain],
                     e, "enable_ssl")
       ELSE combined' = [combined EXCEPT !.pc = "enable_ssl"]
    /\ UNCHANGED <<dvars, rvars, waiter, deploy, checked, resolver, updater,
                   request, deleter>>

\* if enable_ssl: response = self.enable_ssl(...)
EnableSslStep(e) ==
    /\ combined.pc = "enable_ssl"
    /\ IF combined.args.enable_ssl
       THEN CallStep("enable_ssl",
                     [op |-> "enable_ssl",
                      custom_domain |-> combined.args.custom_domain],
                     e, "update_app")
       ELSE combined' = [combined EXCEPT !.pc = "update_app"]
    /\ UNCHANGED <<dvars, rvars, waiter, deploy, checked, resolver, updater,
                   request, deleter>>

\* if kwargs: response = self.update_app(..., instance_count=..., **kwargs)
\* (variant: update_app is called whatever kwargs holds)
UpdateStepAlways(e) ==
    /\ combined.pc = "update_app"
    /\ CallStep("update_app",
                [op |-> "update_app",
                 instance_count |-> combined.args.instance_count,
                 kwargs |-> combined.args.kwargs],
                e, "deploy_app")
    /\ UNCHANGED <<dvars, rvars, waiter, deploy, checked, resolver, updater,
                   request, deleter>>
UpdateStep(e) ==
    /\ combined.pc = "update_app"
    /\ IF combined.args.kwargs # <<>>
       THEN CallStep("update_app",
                     [op |-> "update_app",
                      instance_count |-> combined.args.instance_count,
                      kwargs |-> combined.args.kwargs],
                     e, "deploy_app")
       ELSE combined' = [combined EXCEPT !.pc = "deploy_app"]
    /\ UNCHANGED <<dvars, rvars, waiter, deploy, checked, resolver, updater,
                   request, deleter>>

\* if image_name or docker_file_lines: response = self.deploy_app(...)
DeployStep(e) ==
    /\ combined.pc = "deploy_app"
    /\ IF Truthy(combined.args.image_name)
          \/ Truthy(combined.args.docker_file_lines)
       THEN CallStep("deploy_app",
                     [op |-> "deploy_app",
                      image_name |-> combined.args.image_name,
                      docker_file_lines |-> combined.args.docker_file_lines],
                     e, "return")
       ELSE combined' = [combined EXCEPT !.pc = "return"]
    /\ UNCHANGED <<dvars, rvars, waiter, deploy, checked, resolver, updater,
                   request, deleter>>

\* return response
ReturnResponse ==
    /\ combined.pc = "return"
    /\ combined' = [combined EXCEPT
           !.pc = "returned", !.returned = combined.response]
    /\ UNCHANGED <<dvars, rvars, waiter, deploy, checked, resolver, updater,
                   request, deleter>>

StepOutcomes == {"none", "Exception"} \cup TransientErrors

CombinedNext ==
    \/ \E e \in StepOutcomes : CreateStep(e)
    \/ \E e \in StepOutcomes : AddDomainStep(e)
    \/ \E e \in StepOutcomes : EnableSslStep(e)
    \/ \E e \in StepOutcomes : UpdateStep(e)
    \/ \E e \in StepOutcomes : DeployStep(e)
    \/ ReturnResponse

CombinedSpecInit ==
    /\ CombinedInit
    /\ DIdle
    /\ RIdle
    /\ waiter = <<>>
    /\ deploy = <<>>
    /\ checked = <<>>
    /\ resolver = <<>>
    /\ updater = <<>>
    /\ request = <<>>
    /\ deleter = <<>>

CombinedSpec == CombinedSpecInit /\ [][CombinedNext]_vars

\* the steps the arguments ask for
Wanted(args) ==
    {"create_app"}
    \cup (IF args.custom_domain \notin {NoneArg, Given(<<>>)}
          THEN {"add_domain"} ELSE {})
    \cup (IF args.enable_ssl THEN {"enable_ssl"} ELSE {})
    \cup (IF Len(args.kwargs) > 0 THEN {"update_app"} ELSE {})
    \cup (IF args.image_name \notin {NoneArg, Given(<<>>)}
             \/ args.docker_file_lines \notin {NoneArg, Given(<<>>)}
          THEN {"deploy_app"} ELSE {})
\* the position of the body as a rank in the order of the steps
Reached ==
    IF combined.pc \in {"return", "returned"} THEN Len(StepOrder) + 1
    ELSE IF combined.pc = "raised"
    THEN Rank(combined.issued[Len(combined.issued)].op) + 1
    ELSE Rank(combined.pc)

\* C34: the calls issued are in the order create_app, add_domain,
\* enable_ssl, update_app, deploy_app, each at most once; a step is issued
\* exactly when the body has come to it and the arguments ask for it
\* (add_domain for a custom_domain, enable_ssl for enable_ssl, update_app
\* for extra keyword arguments whatever instance_count is, deploy_app for an
\* image_name or docker_file_lines); after a step raised nothing more is
\* issued and nothing is returned; the value returned is the response of
\* the last step issued.
C34_StepsInFixedOrder ==
    LET issued == combined.issued
        ops == {issued[k].op : k \in 1..Len(issued)}
    IN  /\ \A k, m \in 1..Len(issued) :
              k < m => Rank(issued[k].op) < Rank(issued[m].op)
        /\ ops = {op \in Wanted(combined.args) : Rank(op) < Reached}
        /\ combined.pc = "raised" =>
              /\ combined.exc # "none"
              /\ combined.returned = NoStepResponse
              /\ ~ENABLED CombinedNext
        /\ combined.pc = "returned" =>
              /\ combined.exc = "none"
              /\ combined.returned = ResponseOf(issued[Len(issued)].op)
              /\ ops = Wanted(combined.args)

\* create_and_update_app(..., instance_count=2) with enable_ssl and no
\* other argument: create_app and enable_ssl were issued, update_app was
\* not, and the response of enable_ssl was returned
C34_Witness ==
    /\ combined.pc = "returned"
    /\ combined.args.instance_count = 2
    /\ combined.args.kwargs = <<>>
    /\ combined.args.enable_ssl
    /\ combined.args.custom_domain = NoneArg
    /\ Len(combined.issued) = 2
    /\ combined.returned = ResponseOf("enable_ssl")

====
